---------------------------- MODULE Spec2Model ----------------------------
(***************************************************************************)
(* A model of the tracing autodiff + JIT fusion core of jax-js.            *)
(*                                                                         *)
(* Part I   the process-wide trace stack and the transformations that push *)
(*          frames on it (jvpFlat, jvpV1, partialEvalFlat).                *)
(***************************************************************************)
EXTENDS Integers, Sequences, FiniteSets, TLC

VARIABLES
  traceStack,  \* part_002:91   let traceStack: MainTrace[]
  callStack,   \* the JavaScript call stack of transformation activations
  allMains,    \* every MainTrace object created so far (tracers may escape)
  nextUid,     \* object identity of the next MainTrace
  lastExit,    \* what the transformation that exited last did to traceStack
  jaxpr,       \* the Jaxpr under construction / being processed
  nConsts,     \* how many leading in-binders are known values (consts)
  phase,       \* "build", "built", then the phase of the pass that runs
  pass         \* the locals of the pass that runs over the Jaxpr

tvars == <<traceStack, callStack, allMains, nextUid, lastExit>>
jvars == <<jaxpr, nConsts, phase>>

vars == <<traceStack, callStack, allMains, nextUid, lastExit,
          jaxpr, nConsts, phase, pass>>

-----------------------------------------------------------------------------
(* Bounds *)
MaxDepth == 3   \* nesting depth of transformation calls
MaxMains == 3   \* MainTrace objects created in one behaviour
MaxOuts  == 2   \* outputs of a traced function
MaxEqns  == 2   \* equations of a generated Jaxpr

-----------------------------------------------------------------------------
(***************************************************************************)
(* Part I: trace stack                                                     *)
(***************************************************************************)

\* The bottom of the stack: traceStack.push({level: 0, traceType: EvalTrace}).
EvalMain == [level |-> 0, traceType |-> "EvalTrace", uid |-> 0]

\* newMain: level = traceStack.length; traceStack.push(main).
NewMainFrame(stack, traceType, uid) ==
  [level |-> Len(stack), traceType |-> traceType, uid |-> uid]

\* [Symbol.dispose]() { traceStack.pop(); }
Dispose(stack) ==
  IF Len(stack) = 0 THEN stack ELSE SubSeq(stack, 1, Len(stack) - 1)

\* The transformations that open a trace, and the trace type each one pushes.
TraceFns == {"jvpFlat", "jvpV1", "partialEvalFlat"}

TraceTypeOf(fn) ==
  IF fn = "partialEvalFlat" THEN "PartialEvalTrace" ELSE "JVPTrace"

\* Whether the function binds its frame with `using` (disposed on every exit
\* of the scope, by return or by exception) or with a plain `const`.
BindsWithUsing(fn) ==
  CASE fn = "jvpFlat"         -> TRUE    \* using main = newMain(JVPTrace)
    [] fn = "jvpV1"           -> TRUE    \* using main = newMain(JVPTrace)
    [] fn = "partialEvalFlat" -> FALSE   \* const main = newMain(PartialEvalTrace)

\* A value handed to fullRaise: a non-tracer, or a tracer of some MainTrace.
NonTracer == [isTracer |-> FALSE]
TracerOf(main) == [isTracer |-> TRUE, main |-> main]

\* A fullRaise that lifts whatever tracer is no tracer of the trace.
LiftAlways(main, val) ==
  IF ~val.isTracer THEN "pure"
  ELSE IF val.main = main THEN "same"
  ELSE "lift"

\* fullRaise(trace, val): which branch the code takes.
FullRaise(main, val) ==
  IF ~val.isTracer THEN "pure"
  ELSE IF val.main = main THEN "same"
  ELSE IF val.main.level < main.level THEN "lift"
  ELSE IF val.main.level > main.level THEN "throwHigher"
  ELSE "throwDifferent"

RaiseThrows(main, outs) ==
  \E i \in 1..Len(outs) :
    FullRaise(main, outs[i]) \in {"throwHigher", "throwDifferent"}

\* fullRaise(trace, val) with what it returns.  EvalTrace: pure is pureArray
\* (an Array, a tracer of baseArrayTrace, the trace of traceStack[0]) and
\* lift is the identity; JVPTrace and PartialEvalTrace box the value in a
\* new tracer of the trace.
Raised(main, val) ==
  LET how == FullRaise(main, val)
      boxed == IF main.traceType = "EvalTrace" THEN TracerOf(EvalMain)
               ELSE TracerOf(main)
  IN [val |-> val, how |-> how,
      tracer |-> CASE how = "pure" -> boxed
                   [] how = "same" -> val
                   [] how = "lift" -> IF main.traceType = "EvalTrace" THEN val
                                      ELSE boxed
                   [] OTHER -> NonTracer]

\* The values a traced function can return.
OutValues == {NonTracer} \cup {TracerOf(m) : m \in allMains}

OutLists(fn) ==
  IF fn = "jvpV1" THEN {<<v>> : v \in OutValues}
  ELSE UNION {[1..n -> OutValues] : n \in 0..MaxOuts}

NoExit == [fn |-> "none", how |-> "none", before |-> <<>>, after |-> <<>>]

TraceIdle ==
  /\ traceStack = <<EvalMain>>
  /\ callStack = <<>>
  /\ allMains = {EvalMain}
  /\ nextUid = 1
  /\ lastExit = NoExit
  /\ pass = [status |-> "idle"]

TraceInit ==
  /\ TraceIdle
  /\ jaxpr = [inBinders |-> <<>>, eqns |-> <<>>, outs |-> <<>>]
  /\ nConsts = 0
  /\ phase = "idle"

\* Control is in user code: at top level, or in the body of a traced function.
InUserCode ==
  IF callStack = <<>> THEN TRUE ELSE callStack[Len(callStack)].pc = "f"

\* User code (top level, or the body of a traced function) calls a
\* transformation: the function pushes its frame and calls f.
Call(fn) ==
  /\ Len(callStack) < MaxDepth
  /\ nextUid <= MaxMains
  /\ InUserCode
  /\ LET main == NewMainFrame(traceStack, TraceTypeOf(fn), nextUid) IN
       /\ traceStack' = Append(traceStack, main)
       /\ allMains' = allMains \cup {main}
       /\ callStack' = Append(callStack,
            [fn |-> fn, pc |-> "f", before |-> traceStack, main |-> main])
  /\ nextUid' = nextUid + 1
  /\ UNCHANGED <<lastExit, jvars, pass>>

\* The top activation leaves its scope.
Exit(how, raised) ==
  LET a == callStack[Len(callStack)]
      after == IF BindsWithUsing(a.fn) THEN Dispose(traceStack) ELSE traceStack
  IN /\ traceStack' = after
     /\ lastExit' = [fn |-> a.fn, how |-> how, before |-> a.before, after |-> after,
                     main |-> a.main, raised |-> raised]
     /\ callStack' = SubSeq(callStack, 1, Len(callStack) - 1)
     /\ UNCHANGED <<allMains, nextUid, jvars, pass>>

\* f throws (its own error, or one of a transformation it called).
FThrows ==
  /\ callStack # <<>>
  /\ callStack[Len(callStack)].pc = "f"
  /\ Exit("throwF", <<>>)

\* f returns outs; the function raises each out to its trace and, in
\* partialEvalFlat, assembles the Jaxpr (partialEvalGraphToJaxpr, which
\* throws a TypeError on a tracer without recipe or a failing typecheck).
FReturns ==
  /\ callStack # <<>>
  /\ callStack[Len(callStack)].pc = "f"
  /\ LET a == callStack[Len(callStack)] IN
       \E outs \in OutLists(a.fn), graphThrows \in BOOLEAN :
         LET raised == [i \in 1..Len(outs) |-> Raised(a.main, outs[i])] IN
           IF RaiseThrows(a.main, outs) THEN Exit("throwRaise", raised)
           ELSE IF a.fn = "partialEvalFlat" /\ graphThrows
           THEN Exit("throwGraph", raised)
           ELSE Exit("return", raised)

\* The pytrees handed to jvp, to linearize's fLin and to vjp's fVjp: a
\* leaf with a value, or a list of pytrees.
PyTrees ==
  LET Leaf(v) == [leaf |-> TRUE, val |-> v, children |-> <<>>]
      List(c) == [leaf |-> FALSE, val |-> 0, children |-> c]
  IN {Leaf(1), Leaf(2), List(<<Leaf(1), Leaf(2)>>),
      List(<<List(<<Leaf(2)>>), Leaf(1)>>)}

\* The tree itself, leaf values included.
WholeTree(x) == x

RECURSIVE TreeDefOf(_)
\* The structure treeFlatten(x) returns next to the leaves: x without the
\* values of its leaves.
TreeDefOf(x) ==
  IF x.leaf THEN [leaf |-> TRUE, children |-> <<>>]
  ELSE [leaf |-> FALSE,
        children |-> [i \in 1..Len(x.children) |-> TreeDefOf(x.children[i])]]

\* jvp(f, primals, tangents), fLin(...tangentsIn) of linearize and
\* fVjp(cotangentsOut) of vjp: both trees are flattened and compared first.
\* expected is the tree the call is checked against (the primals for jvp and
\* fLin, the output of f for fVjp).  When the structures agree jvp goes on to
\* jvpFlat; fLin and fVjp evaluate the Jaxpr, which opens no trace.
TreeChecked(fn) ==
  /\ InUserCode
  /\ \E expected \in PyTrees, given \in PyTrees :
       IF ~(TreeDefOf(expected) = TreeDefOf(given))
       THEN /\ lastExit' = [fn |-> fn, how |-> "TreeMismatchError",
                            before |-> traceStack, after |-> traceStack,
                            trees |-> <<expected, given>>]
            /\ UNCHANGED <<traceStack, callStack, allMains, nextUid, jvars, pass>>
       ELSE IF fn = "jvp" THEN Call("jvpFlat")
       ELSE /\ lastExit' = [fn |-> fn, how |-> "return",
                            before |-> traceStack, after |-> traceStack,
                            trees |-> <<expected, given>>]
            /\ UNCHANGED <<traceStack, callStack, allMains, nextUid, jvars, pass>>

\* The values dynamicTrace holds: unset, or a frame of the stack that a
\* transformation above the bottom frame has installed.
DynamicTraces ==
  {[set |-> FALSE]} \cup
    {[set |-> TRUE, main |-> traceStack[n]] : n \in 2..Len(traceStack)}

\* The trace findTopTrace starts from, whatever the arguments.
StartingTrace(xs, dynamicTrace, i, topMain) == topMain

RECURSIVE FindTopTrace(_, _, _, _)
\* findTopTrace(xs): topMain starts as traceStack[0] (i = 1), is replaced by
\* the main of each tracer of a strictly higher level, then by dynamicTrace
\* when that is set and of a strictly higher level.
FindTopTrace(xs, dynamicTrace, i, topMain) ==
  IF i > Len(xs)
  THEN IF dynamicTrace.set /\ dynamicTrace.main.level > topMain.level
       THEN dynamicTrace.main ELSE topMain
  ELSE FindTopTrace(xs, dynamicTrace, i + 1,
         IF xs[i].isTracer /\ xs[i].main.level > topMain.level
         THEN xs[i].main ELSE topMain)

\* bind(prim, args, params): findTopTrace, fullRaise of every argument, then
\* topTrace.processPrimitive(prim, tracers, params) unless a raise threw.
Bind ==
  /\ InUserCode
  /\ \E args \in OutLists("bind"), dynamicTrace \in DynamicTraces :
       LET topMain == FindTopTrace(args, dynamicTrace, 1, traceStack[1])
           raised == [i \in 1..Len(args) |-> Raised(topMain, args[i])]
       IN lastExit' = [fn |-> "bind",
                       how |-> IF RaiseThrows(topMain, args) THEN "throwRaise"
                               ELSE "processPrimitive",
                       before |-> traceStack, after |-> traceStack,
                       main |-> topMain, raised |-> raised,
                       dynamicTrace |-> dynamicTrace]
  /\ UNCHANGED <<traceStack, callStack, allMains, nextUid, jvars, pass>>

TraceNext ==
  \/ \E fn \in TraceFns : Call(fn)
  \/ Bind
  \/ \E fn \in {"jvp", "fLin", "fVjp"} : TreeChecked(fn)
  \/ FThrows
  \/ FReturns

SpecTrace == TraceInit /\ [][TraceNext]_vars

-----------------------------------------------------------------------------
(***************************************************************************)
(* Part II: array values and the primitives' implementation rules.         *)
(* An array is [shape, dtype, data] with data in row-major order; float32  *)
(* values are modelled by integers, bool values by 0 and 1.                *)
(***************************************************************************)

RECURSIVE Prod(_)
\* utils.ts prod: arr.reduce((acc, x) => acc * x, 1)
Prod(s) == IF s = <<>> THEN 1 ELSE Head(s) * Prod(Tail(s))

RECURSIVE SumSeq(_)
SumSeq(s) == IF s = <<>> THEN 0 ELSE Head(s) + SumSeq(Tail(s))

\* utils.ts range(n): 0, 1, .., n-1
Range(n) == [i \in 1..n |-> i - 1]

SeqToSet(s) == {s[i] : i \in 1..Len(s)}

\* Position (1-based) of x in s, 0 when absent: s.indexOf(x) + 1.
IndexOf(s, x) ==
  IF \E i \in 1..Len(s) : s[i] = x
  THEN CHOOSE i \in 1..Len(s) : s[i] = x /\ \A j \in 1..(i - 1) : s[j] # x
  ELSE 0

RECURSIVE SelectSeqIdx(_, _, _)
\* The subsequence of s at the positions i (in order) with Keep(i).
SelectSeqIdx(s, Keep(_), i) ==
  IF i > Len(s) THEN <<>>
  ELSE (IF Keep(i) THEN <<s[i]>> ELSE <<>>) \o SelectSeqIdx(s, Keep, i + 1)

\* Row-major stride of axis i (1-based) of a contiguous array of this shape.
Stride(shape, i) == Prod(SubSeq(shape, i + 1, Len(shape)))

\* The multi-index of flat position k (0-based), and back.
Unravel(shape, k) ==
  [i \in 1..Len(shape) |-> (k \div Stride(shape, i)) % shape[i]]

Ravel(shape, idx) ==
  SumSeq([i \in 1..Len(shape) |-> idx[i] * Stride(shape, i)])

MkArray(shape, dtype, F(_)) ==
  [shape |-> shape, dtype |-> dtype,
   data  |-> [k \in 1..Prod(shape) |-> F(Unravel(shape, k - 1))]]

At(a, idx) == a.data[Ravel(a.shape, idx) + 1]

\* A scalar that drops its value.
ScalarZero(dtype, v) == [shape |-> <<>>, dtype |-> dtype, data |-> <<0>>]

Scalar(dtype, v) == [shape |-> <<>>, dtype |-> dtype, data |-> <<v>>]

\* zeros(shape, {dtype}) and zerosLike(val): tf.zeros(aval.shape, aval.dtype)
Zeros(shape, dtype) == MkArray(shape, dtype, LAMBDA idx : 0)
ZerosLike(a) == Zeros(a.shape, a.dtype)

IsZero(a) == \A k \in 1..Len(a.data) : a.data[k] = 0

\* NumPy broadcasting of two shapes, aligned at the last axis.
DimAt(shape, n, i) ==
  IF i > n - Len(shape) THEN shape[i - (n - Len(shape))] ELSE 1

BroadcastOk(s1, s2) ==
  LET n == IF Len(s1) > Len(s2) THEN Len(s1) ELSE Len(s2) IN
    \A i \in 1..n :
      \/ DimAt(s1, n, i) = DimAt(s2, n, i)
      \/ DimAt(s1, n, i) = 1
      \/ DimAt(s2, n, i) = 1

GeneralBroadcast(s1, s2) ==
  LET n == IF Len(s1) > Len(s2) THEN Len(s1) ELSE Len(s2) IN
    [i \in 1..n |-> IF DimAt(s1, n, i) = 1 THEN DimAt(s2, n, i)
                    ELSE DimAt(s1, n, i)]

\* The index into an array of `shape` that output index idx reads.
BcIndex(shape, idx) ==
  [i \in 1..Len(shape) |->
     IF shape[i] = 1 THEN 0 ELSE idx[i + Len(idx) - Len(shape)]]

\* Integer stand-ins for Math.sin and Math.cos (Taylor polynomials scaled to
\* integers: 6(x - x^3/6) and 2(1 - x^2/2)).
SinI(x) == 6 * x - x * x * x
CosI(x) == 2 - x * x

\* implRules: tf.add, tf.mul, tf.neg, tf.sin, tf.cos
AddImpl(x, y) ==
  MkArray(GeneralBroadcast(x.shape, y.shape), x.dtype,
          LAMBDA idx : At(x, BcIndex(x.shape, idx)) + At(y, BcIndex(y.shape, idx)))

MulImpl(x, y) ==
  MkArray(GeneralBroadcast(x.shape, y.shape), x.dtype,
          LAMBDA idx : At(x, BcIndex(x.shape, idx)) * At(y, BcIndex(y.shape, idx)))

NegImpl(x) == MkArray(x.shape, x.dtype, LAMBDA idx : 0 - At(x, idx))
SinImpl(x) == MkArray(x.shape, x.dtype, LAMBDA idx : SinI(At(x, idx)))
CosImpl(x) == MkArray(x.shape, x.dtype, LAMBDA idx : CosI(At(x, idx)))

\* implRules Greater / Less (the Compare primitive with its op)
CompareOps == {"less", "greater"}

CompareImpl(x, y, op) ==
  MkArray(GeneralBroadcast(x.shape, y.shape), "bool",
          LAMBDA idx :
            LET a == At(x, BcIndex(x.shape, idx))
                b == At(y, BcIndex(y.shape, idx))
            IN IF (IF op = "less" THEN a < b ELSE a > b) THEN 1 ELSE 0)

WhereImpl(c, x, y) ==
  LET shape == GeneralBroadcast(c.shape, GeneralBroadcast(x.shape, y.shape)) IN
    MkArray(shape, x.dtype,
            LAMBDA idx : IF At(c, BcIndex(c.shape, idx)) # 0
                         THEN At(x, BcIndex(x.shape, idx))
                         ELSE At(y, BcIndex(y.shape, idx)))

\* implRules ReduceSum: tf.sum(x, axis); axis lists 0-based axes.
KeptAxes(ndim, axis) ==
  SelectSeqIdx(Range(ndim), LAMBDA i : (i - 1) \notin SeqToSet(axis), 1)

ReduceSumImpl(x, axis) ==
  LET kept == KeptAxes(Len(x.shape), axis)
      shape == [i \in 1..Len(kept) |-> x.shape[kept[i] + 1]]
  IN MkArray(shape, x.dtype,
       LAMBDA idx :
         SumSeq([k \in 1..Prod(x.shape) |->
           LET full == Unravel(x.shape, k - 1) IN
             IF \A i \in 1..Len(kept) : full[kept[i] + 1] = idx[i]
             THEN x.data[k] ELSE 0]))

\* implRules Transpose: tf.transpose(x, perm); no perm reverses the axes.
ReversePerm(ndim) == [i \in 1..ndim |-> ndim - i]

PermOf(perm, ndim) == IF perm = <<-1>> THEN ReversePerm(ndim) ELSE perm

TransposeImpl(x, perm) ==
  LET p == PermOf(perm, Len(x.shape))
      shape == [i \in 1..Len(p) |-> x.shape[p[i] + 1]]
  IN MkArray(shape, x.dtype,
       LAMBDA idx : At(x, [j \in 1..Len(p) |-> idx[IndexOf(p, j - 1)]]))

\* implRules Broadcast: expandDims at each axis, then tf.broadcastTo(shape).
BroadcastImpl(x, shape, axis) ==
  LET kept == KeptAxes(Len(shape), axis) IN
    MkArray(shape, x.dtype,
       LAMBDA idx : At(x, [i \in 1..Len(kept) |->
                             IF x.shape[i] = 1 THEN 0 ELSE idx[kept[i] + 1]]))

\* utils.ts invertPermutation: result[axis[i]] = i
InvertPermutation(perm) == [i \in 1..Len(perm) |-> IndexOf(perm, i - 1) - 1]

-----------------------------------------------------------------------------
(***************************************************************************)
(* Part III: the Jaxpr IR.                                                 *)
(* Var k is in-binder k for k <= Len(inBinders) and the out binder of      *)
(* equation k - Len(inBinders) otherwise; every primitive modelled here    *)
(* has one out binder.                                                     *)
(***************************************************************************)

VarAtom(k) == [kind |-> "var", id |-> k, val |-> 0]
LitAtom(v) == [kind |-> "lit", id |-> 0, val |-> v]

Aval(shape, dtype) == [shape |-> shape, dtype |-> dtype]

\* An absent perm parameter (perm?: number[]): no valid permutation has -1.
NoPerm == <<-1>>

NoParams == [axis |-> <<>>, perm |-> NoPerm, shape |-> <<>>, op |-> "none"]

NumIn(j) == Len(j.inBinders)
NumVars(j) == Len(j.inBinders) + Len(j.eqns)

VarAval(j, k) ==
  IF k <= NumIn(j) THEN j.inBinders[k] ELSE j.eqns[k - NumIn(j)].aval

\* A Lit holds a JavaScript number: a float32 scalar.
AtomAval(j, a) ==
  IF a.kind = "var" THEN VarAval(j, a.id) ELSE Aval(<<>>, "float32")

OutVar(j, i) == NumIn(j) + i

\* Shape and dtype propagation of each primitive (abstractEvalRules).
AbstractEval(prim, avals, params) ==
  CASE prim \in {"add", "mul"} ->
         Aval(GeneralBroadcast(avals[1].shape, avals[2].shape), avals[1].dtype)
    [] prim \in {"neg", "sin", "cos"} -> avals[1]
    [] prim = "compare" ->
         Aval(GeneralBroadcast(avals[1].shape, avals[2].shape), "bool")
    [] prim = "where" ->
         Aval(GeneralBroadcast(avals[1].shape,
                GeneralBroadcast(avals[2].shape, avals[3].shape)), avals[2].dtype)
    [] prim = "reduce_sum" ->
         LET kept == KeptAxes(Len(avals[1].shape), params.axis) IN
           Aval([i \in 1..Len(kept) |-> avals[1].shape[kept[i] + 1]], avals[1].dtype)
    [] prim = "transpose" ->
         LET p == PermOf(params.perm, Len(avals[1].shape)) IN
           Aval([i \in 1..Len(p) |-> avals[1].shape[p[i] + 1]], avals[1].dtype)
    [] prim = "broadcast" -> Aval(params.shape, avals[1].dtype)
    [] prim = "reshape" -> Aval(params.shape, avals[1].dtype)
    [] prim = "flip" -> avals[1]

\* The implementation rule of each primitive, on concrete arrays.
FlipImpl(x, axis) ==
  MkArray(x.shape, x.dtype,
    LAMBDA idx : At(x, [i \in 1..Len(idx) |->
                          IF (i - 1) \in SeqToSet(axis)
                          THEN x.shape[i] - 1 - idx[i] ELSE idx[i]]))

ReshapeImpl(x, shape) == [shape |-> shape, dtype |-> x.dtype, data |-> x.data]

Impl(prim, args, params) ==
  CASE prim = "add" -> AddImpl(args[1], args[2])
    [] prim = "mul" -> MulImpl(args[1], args[2])
    [] prim = "neg" -> NegImpl(args[1])
    [] prim = "sin" -> SinImpl(args[1])
    [] prim = "cos" -> CosImpl(args[1])
    [] prim = "compare" -> CompareImpl(args[1], args[2], params.op)
    [] prim = "where" -> WhereImpl(args[1], args[2], args[3])
    [] prim = "reduce_sum" -> ReduceSumImpl(args[1], params.axis)
    [] prim = "transpose" -> TransposeImpl(args[1], params.perm)
    [] prim = "broadcast" -> BroadcastImpl(args[1], params.shape, params.axis)
    [] prim = "reshape" -> ReshapeImpl(args[1], params.shape)
    [] prim = "flip" -> FlipImpl(args[1], params.axis)

\* evalJaxpr: bind each equation in order on the values of its inputs.
AtomValue(env, a) ==
  IF a.kind = "var" THEN env[a.id] ELSE Scalar("float32", a.val)

RECURSIVE EvalEqns(_, _, _)
EvalEqns(j, env, i) ==
  IF i > Len(j.eqns) THEN env
  ELSE LET e == j.eqns[i]
           args == [n \in 1..Len(e.inputs) |-> AtomValue(env, e.inputs[n])]
       IN EvalEqns(j, Append(env, Impl(e.primitive, args, e.params)), i + 1)

EvalJaxpr(j, args) ==
  LET env == EvalEqns(j, args, 1) IN
    [n \in 1..Len(j.outs) |-> AtomValue(env, j.outs[n])]

-----------------------------------------------------------------------------
(***************************************************************************)
(* Part IV: generating type-correct Jaxprs, one equation at a time.        *)
(***************************************************************************)

\* Array shapes and literal / element values the generated programs use.
Shapes == {<<>>, <<2>>, <<2, 2>>, <<4>>}
LitVals == {2}

\* Concrete arrays of an aval: one constant, one with distinct elements.
ArgChoices(aval) ==
  IF aval.dtype = "bool"
  THEN {MkArray(aval.shape, "bool", LAMBDA idx : 1),
        MkArray(aval.shape, "bool", LAMBDA idx : (Ravel(aval.shape, idx) + 1) % 2)}
  ELSE {MkArray(aval.shape, "float32", LAMBDA idx : 2),
        MkArray(aval.shape, "float32", LAMBDA idx : Ravel(aval.shape, idx) - 1)}

\* All assignments of arrays to a sequence of avals.
RECURSIVE ArgLists(_)
ArgLists(avals) ==
  IF avals = <<>> THEN {<<>>}
  ELSE {<<a>> \o rest : a \in ArgChoices(Head(avals)), rest \in ArgLists(Tail(avals))}

\* The type-correct equations (as abstractEvalRules accepts them) that can
\* be appended to j, without the ones simplify() folds or merges.
\* cfg.sameShape: every Var operand has the shape of the result (a Lit is a
\* scalar and always broadcasts).
EqnCandidates(j, cfg) ==
  LET prims == cfg.prims
      Shape(a) == AtomAval(j, a).shape
      floatVars == {k \in 1..NumVars(j) : VarAval(j, k).dtype = "float32"}
      boolVars == {k \in 1..NumVars(j) : VarAval(j, k).dtype = "bool"}
      floatAtoms == {VarAtom(k) : k \in floatVars} \cup {LitAtom(v) : v \in cfg.lits}
      AxisChoices(shape) ==
        CASE Len(shape) = 0 -> {}
          [] Len(shape) = 1 -> {<<0>>}
          [] Len(shape) = 2 -> {<<0>>, <<1>>, <<0, 1>>}
      BroadcastChoices(shape) ==
        {b \in {[shape |-> <<2>>, axis |-> <<0>>],
                [shape |-> <<2, 2>>, axis |-> <<0, 1>>],
                [shape |-> <<2, 2>>, axis |-> <<0>>],
                [shape |-> <<2, 2>>, axis |-> <<1>>]} :
           LET kept == KeptAxes(Len(b.shape), b.axis) IN
             /\ Len(kept) = Len(shape)
             /\ \A i \in 1..Len(shape) : shape[i] \in {1, b.shape[kept[i] + 1]}}
      ReshapeChoices(shape) == {t \in Shapes : Prod(t) = Prod(shape) /\ t # shape}
      MkEqn(prim, inputs, params) ==
        [primitive |-> prim, inputs |-> inputs, params |-> params,
         aval |-> AbstractEval(prim,
                    [n \in 1..Len(inputs) |-> AtomAval(j, inputs[n])], params)]
      OperandsOk(inputs) ==
        /\ \E n \in 1..Len(inputs) : inputs[n].kind = "var"
        /\ \A m, n \in 1..Len(inputs) :
             /\ BroadcastOk(Shape(inputs[m]), Shape(inputs[n]))
             /\ cfg.sameShape /\ inputs[m].kind = "var" /\ inputs[n].kind = "var"
                  => Shape(inputs[m]) = Shape(inputs[n])
      binary == {b \in floatAtoms \X floatAtoms : OperandsOk(b)}
      unary == {<<VarAtom(k)>> : k \in floatVars}
      anyVar == {<<VarAtom(k)>> : k \in 1..NumVars(j)}
      all ==
        {MkEqn(pr, i, NoParams) : pr \in {"add", "mul"} \cap prims, i \in binary}
        \cup {MkEqn(pr, i, NoParams) :
                pr \in {"neg", "sin", "cos"} \cap prims, i \in unary}
        \cup {MkEqn("compare", i, [NoParams EXCEPT !.op = op]) :
                i \in {b \in binary : "compare" \in prims}, op \in CompareOps}
        \cup {MkEqn("where", i, NoParams) :
                i \in {w \in {<<VarAtom(c), x, y>> :
                                 c \in boolVars, x \in floatAtoms, y \in floatAtoms} :
                         "where" \in prims /\ OperandsOk(w)}}
        \cup UNION {{MkEqn("reduce_sum", i, [NoParams EXCEPT !.axis = ax]) :
                       ax \in AxisChoices(Shape(i[1]))} :
                    i \in {u \in unary : "reduce_sum" \in prims}}
        \cup {MkEqn("transpose", i, [NoParams EXCEPT !.perm = p]) :
                i \in {u \in anyVar : "transpose" \in prims /\ Len(Shape(u[1])) = 2},
                p \in IF cfg.explicitPerm THEN {<<1, 0>>} ELSE {NoPerm, <<1, 0>>}}
        \cup UNION {{MkEqn("broadcast", i,
                       [NoParams EXCEPT !.shape = b.shape, !.axis = b.axis]) :
                       b \in BroadcastChoices(Shape(i[1]))} :
                    i \in {u \in anyVar : "broadcast" \in prims}}
        \cup UNION {{MkEqn("reshape", i, [NoParams EXCEPT !.shape = t]) :
                       t \in ReshapeChoices(Shape(i[1]))} :
                    i \in {u \in anyVar : "reshape" \in prims}}
        \cup UNION {{MkEqn("flip", i, [NoParams EXCEPT !.axis = ax]) :
                       ax \in AxisChoices(Shape(i[1]))} :
                    i \in {u \in anyVar : "flip" \in prims}}
  IN {e \in all :
        /\ e.aval.shape \in Shapes
        \* simplify(): identical equations are merged
        /\ \A i \in 1..Len(j.eqns) :
             ~(j.eqns[i].primitive = e.primitive /\ j.eqns[i].inputs = e.inputs
               /\ j.eqns[i].params = e.params)}

\* simplify(): no dead equation is left; the out binder of every equation
\* is read by an equation or is an out.
NoDeadCode(j, outs) ==
  \A i \in 1..Len(j.eqns) :
    \/ \E k \in 1..Len(j.eqns), n \in 1..3 :
         n <= Len(j.eqns[k].inputs) /\ j.eqns[k].inputs[n] = VarAtom(OutVar(j, i))
    \/ \E n \in 1..Len(outs) : outs[n] = VarAtom(OutVar(j, i))

OutChoices(j, litOuts) ==
  {o \in UNION {[1..n -> {VarAtom(k) : k \in 1..NumVars(j)}
                         \cup {LitAtom(v) : v \in litOuts}] :
                 n \in 1..MaxOuts} :
     NoDeadCode(j, o)}

\* The function about to be traced: its in-binders (cfg.inBinders: the
\* consts first, then the arguments) and no equation yet.
BuildInit(cfg) ==
  /\ TraceIdle
  /\ phase = "build"
  /\ \E c \in cfg.inBinders :
       /\ jaxpr = [inBinders |-> c.inBinders, eqns |-> <<>>, outs |-> <<>>]
       /\ nConsts = c.nConsts

\* cfg: the primitives and operand forms of the pass the Jaxpr is built for.
AddEqn(cfg) ==
  /\ phase = "build"
  /\ Len(jaxpr.eqns) < cfg.maxEqns
  /\ \E e \in EqnCandidates(jaxpr, cfg) :
       jaxpr' = [jaxpr EXCEPT !.eqns = Append(@, e)]
  /\ UNCHANGED <<nConsts, phase, tvars, pass>>

SetOuts(cfg) ==
  /\ phase = "build"
  /\ \E o \in OutChoices(jaxpr, cfg.litOuts) : jaxpr' = [jaxpr EXCEPT !.outs = o]
  /\ phase' = "built"
  /\ UNCHANGED <<nConsts, tvars, pass>>

-----------------------------------------------------------------------------
(***************************************************************************)
(* Part V: backward pass, evalJaxprTransposed over the transpose rules.    *)
(* The Jaxpr is a linear one as vjpFlat passes it: consts first (known),   *)
(* then one UndefPrimal per primal input.                                  *)
(***************************************************************************)

LinearCfg ==
  [prims |-> {"add", "mul", "neg", "where", "reduce_sum", "transpose", "broadcast",
               "sin", "cos", "compare"},
   sameShape |-> TRUE, explicitPerm |-> FALSE, lits |-> LitVals, litOuts |-> {},
   maxEqns |-> MaxEqns,
   inBinders |->
     {[inBinders |-> <<Aval(<<>>, "float32")>>, nConsts |-> 0],
      [inBinders |-> <<Aval(<<2>>, "float32")>>, nConsts |-> 0],
      [inBinders |-> <<Aval(<<2, 2>>, "float32")>>, nConsts |-> 0],
      [inBinders |-> <<Aval(<<>>, "float32"), Aval(<<>>, "float32")>>, nConsts |-> 0],
      [inBinders |-> <<Aval(<<>>, "float32"), Aval(<<>>, "float32")>>, nConsts |-> 1],
      [inBinders |-> <<Aval(<<2>>, "float32"), Aval(<<2>>, "float32")>>, nConsts |-> 1],
      [inBinders |-> <<Aval(<<2>>, "bool"), Aval(<<2>>, "float32")>>, nConsts |-> 1],
      [inBinders |-> <<Aval(<<>>, "bool"), Aval(<<>>, "float32")>>, nConsts |-> 1]}]

NullCt == [null |-> TRUE]
Ct(a) == [null |-> FALSE, val |-> a]

Known(a) == [undef |-> FALSE, val |-> a]
UndefPrimal(aval) == [undef |-> TRUE, aval |-> aval]

Threw == [ok |-> FALSE, cts |-> <<>>]
Pulled(cts) == [ok |-> TRUE, cts |-> cts]

\* A rule that pulls nothing back and never throws.
TransposeNothing(prim, ct, x, params) == Pulled(<<NullCt, NullCt, NullCt>>)

\* transposeRules[prim]([ct], primalsIn, params)
TransposeRule(prim, ct, x, params) ==
  CASE prim = "mul" ->
         IF x[1].undef = x[2].undef THEN Threw
         ELSE IF x[1].undef THEN Pulled(<<Ct(MulImpl(ct, x[2].val)), NullCt>>)
         ELSE Pulled(<<NullCt, Ct(MulImpl(x[1].val, ct))>>)
    [] prim = "neg" ->
         IF ~x[1].undef THEN Threw ELSE Pulled(<<Ct(NegImpl(ct))>>)
    [] prim = "add" ->
         IF ~(x[1].undef \/ x[2].undef) THEN Threw
         ELSE Pulled(<<Ct(ct), Ct(ct)>>)
    [] prim = "reduce_sum" ->
         IF ~x[1].undef THEN Threw
         ELSE Pulled(<<Ct(BroadcastImpl(ct, x[1].aval.shape, params.axis))>>)
    [] prim = "where" ->
         IF x[1].undef THEN Threw
         ELSE Pulled(<<NullCt,
                IF x[2].undef
                THEN Ct(WhereImpl(x[1].val, ct,
                          Zeros(x[2].aval.shape, x[2].aval.dtype)))
                ELSE NullCt,
                IF x[3].undef
                THEN Ct(WhereImpl(x[1].val,
                          Zeros(x[3].aval.shape, x[3].aval.dtype), ct))
                ELSE NullCt>>)
    [] prim = "transpose" ->
         IF ~x[1].undef THEN Threw
         ELSE Pulled(<<Ct(TransposeImpl(ct,
                IF params.perm # NoPerm THEN InvertPermutation(params.perm)
                ELSE ReversePerm(Len(x[1].aval.shape))))>>)
    [] prim = "broadcast" ->
         IF ~x[1].undef THEN Threw
         ELSE Pulled(<<Ct(ReduceSumImpl(ct, params.axis))>>)
    [] OTHER -> Threw

NoCt == [has |-> FALSE]

\* readCotangent(v): the stored cotangent, else zeros of v's aval.
ReadCotangent(j, store, v) ==
  IF store[v].has THEN store[v].val
  ELSE Zeros(VarAval(j, v).shape, VarAval(j, v).dtype)

\* writeCotangent(v, ct): store ct, adding it to what is stored.
WriteCotangent(store, v, ct) ==
  IF ct.null THEN store
  ELSE IF store[v].has
       THEN [store EXCEPT ![v] = [has |-> TRUE, val |-> AddImpl(@.val, ct.val)]]
       ELSE [store EXCEPT ![v] = [has |-> TRUE, val |-> ct.val]]

RECURSIVE WriteOuts(_, _, _, _)
\* for (i < jaxpr.outs.length) if (outs[i] is Var) writeCotangent(outs[i], cotangents[i])
WriteOuts(j, store, cotangents, i) ==
  IF i > Len(j.outs) THEN store
  ELSE WriteOuts(j,
         IF j.outs[i].kind = "var"
         THEN WriteCotangent(store, j.outs[i].id, Ct(cotangents[i])) ELSE store,
         cotangents, i + 1)

\* The input positions (1-based) of eqn whose cotangent the loop writes: it
\* runs over j < jaxpr.inBinders.length.
WriteLoopBound(j, eqn) == Len(j.inBinders)

WrittenPositions(j, eqn, cotangentsIn) ==
  {n \in 1..WriteLoopBound(j, eqn) :
     /\ n <= Len(eqn.inputs)
     /\ eqn.inputs[n].kind = "var"
     /\ eqn.inputs[n].id > nConsts
     /\ ~cotangentsIn[n].null}

RECURSIVE WriteInputs(_, _, _, _, _)
WriteInputs(j, store, eqn, cotangentsIn, n) ==
  IF n > WriteLoopBound(j, eqn) THEN store
  ELSE WriteInputs(j,
         IF n \in WrittenPositions(j, eqn, cotangentsIn)
         THEN WriteCotangent(store, eqn.inputs[n].id, cotangentsIn[n]) ELSE store,
         eqn, cotangentsIn, n + 1)

\* primalsIn of an equation: Lit value, known primal, or UndefPrimal.
PrimalsIn(j, args, eqn) ==
  [n \in 1..Len(eqn.inputs) |->
     LET v == eqn.inputs[n] IN
       IF v.kind = "lit" THEN Known(Scalar("float32", v.val))
       ELSE IF v.id <= Len(args) /\ ~args[v.id].undef THEN args[v.id]
       ELSE UndefPrimal(VarAval(j, v.id))]

\* Entry of evalJaxprTransposed(jaxpr, [...consts, ...UndefPrimal],
\* cotangents) up to the loop over the equations.  caller and y record who
\* pulls back (vjp's fVjp, or grad with the output y of f).
EvalJaxprTransposedEntry(consts, cotangents, caller, y) ==
  [status |-> "loop",
   args |-> [n \in 1..NumIn(jaxpr) |->
               IF n <= nConsts THEN Known(consts[n])
               ELSE UndefPrimal(jaxpr.inBinders[n])],
   cotangents |-> cotangents,
   ctStore |-> WriteOuts(jaxpr, [v \in 1..NumVars(jaxpr) |-> NoCt],
                         cotangents, 1),
   i |-> Len(jaxpr.eqns),
   cotangentsIn |-> <<>>,
   written |-> {},
   results |-> <<>>,
   caller |-> caller, y |-> y, returned |-> <<>>, error |-> ""]

\* vjpFlat's fVjp(...cotangents)
TransposeStart ==
  /\ phase = "built"
  /\ \E consts \in ArgLists(SubSeq(jaxpr.inBinders, 1, nConsts)),
        cotangents \in ArgLists([n \in 1..Len(jaxpr.outs) |->
                                   AtomAval(jaxpr, jaxpr.outs[n])]) :
       pass' = EvalJaxprTransposedEntry(consts, cotangents, "vjp", <<>>)
  /\ phase' = "transpose"
  /\ UNCHANGED <<jaxpr, nConsts, tvars>>

\* grad(f)(...x): vjp(f, ...x), the checks on its output y, then
\* fVjp(pureArray(1))[0].  f returns one tracer (tree "leaf", the single out
\* of the Jaxpr) or a list of tracers (tree "list").
Grad ==
  /\ phase = "built"
  /\ \E consts \in ArgLists(SubSeq(jaxpr.inBinders, 1, nConsts)),
        tree \in {"leaf", "list"} :
       /\ tree = "leaf" => Len(jaxpr.outs) = 1
       /\ LET y == [tree |-> tree,
                    avals |-> [n \in 1..Len(jaxpr.outs) |->
                                 AtomAval(jaxpr, jaxpr.outs[n])]]
              Throw(error) ==
                [status |-> error, args |-> <<>>, cotangents |-> <<>>,
                 ctStore |-> <<>>, i |-> 0, cotangentsIn |-> <<>>, written |-> {},
                 results |-> <<>>, caller |-> "grad", y |-> y, returned |-> <<>>,
                 error |-> error]
          IN pass' =
               IF tree # "leaf" \/ Len(y.avals[1].shape) # 0
               THEN Throw("TypeError")
               ELSE IF y.avals[1].dtype # "float32"
               THEN Throw("TypeError")
               ELSE EvalJaxprTransposedEntry(consts, <<Scalar("float32", 1)>>,
                                             "grad", y)
  /\ phase' = "transpose"
  /\ UNCHANGED <<jaxpr, nConsts, tvars>>

\* One iteration of the loop over the equations, last to first.
TransposeEqn ==
  /\ phase = "transpose"
  /\ pass.status = "loop"
  /\ pass.i >= 1
  /\ LET eqn == jaxpr.eqns[pass.i]
         out == OutVar(jaxpr, pass.i)
         ct == ReadCotangent(jaxpr, pass.ctStore, out)
         read == [pass.ctStore EXCEPT ![out] = NoCt]
         r == TransposeRule(eqn.primitive, ct,
                            PrimalsIn(jaxpr, pass.args, eqn), eqn.params)
     IN \* if (!rule) throw new TypeError(...)
        IF eqn.primitive \notin {"mul", "neg", "add", "reduce_sum", "where",
                                 "transpose", "broadcast"}
        THEN pass' = [pass EXCEPT !.status = "threw", !.error = "TypeError"]
        \* NonlinearError extends TypeError
        ELSE IF ~r.ok
        THEN pass' = [pass EXCEPT !.status = "threw", !.error = "NonlinearError"]
        ELSE pass' = [pass EXCEPT
               !.ctStore = WriteInputs(jaxpr, read, eqn, r.cts, 1),
               !.cotangentsIn = r.cts,
               !.written = WrittenPositions(jaxpr, eqn, r.cts),
               !.i = @ - 1]
  /\ UNCHANGED <<jvars, tvars>>

\* After the loop: read the cotangent of every UndefPrimal in-binder.
TransposeReturn ==
  /\ phase = "transpose"
  /\ pass.status = "loop"
  /\ pass.i = 0
  /\ pass' = [pass EXCEPT
       !.status = "done",
       !.results = [n \in 1..(NumIn(jaxpr) - nConsts) |->
                      ReadCotangent(jaxpr, pass.ctStore, nConsts + n)],
       \* fVjp(...) for vjp, fVjp(pureArray(1))[0] for grad
       !.returned = IF pass.caller = "grad"
                    THEN <<ReadCotangent(jaxpr, pass.ctStore, nConsts + 1)>>
                    ELSE [n \in 1..(NumIn(jaxpr) - nConsts) |->
                            ReadCotangent(jaxpr, pass.ctStore, nConsts + n)]]
  /\ UNCHANGED <<jvars, tvars>>

ADNext ==
  \/ AddEqn(LinearCfg)
  \/ SetOuts(LinearCfg)
  \/ TransposeStart
  \/ Grad
  \/ TransposeEqn
  \/ TransposeReturn

SpecAD == BuildInit(LinearCfg) /\ [][ADNext]_vars

\* The Jaxpr is linear in its non-const in-binders: what linearizing a
\* function over these primitives yields (every Var past the consts is a
\* tangent).
IsTangent(a) == a.kind = "var" /\ a.id > nConsts
IsKnown(a) == a.kind = "lit" \/ a.id <= nConsts

LinearEqn(e) ==
  CASE e.primitive = "add" -> IsTangent(e.inputs[1]) /\ IsTangent(e.inputs[2])
    [] e.primitive = "mul" ->
         \/ IsTangent(e.inputs[1]) /\ IsKnown(e.inputs[2])
         \/ IsKnown(e.inputs[1]) /\ IsTangent(e.inputs[2])
    [] e.primitive = "where" ->
         IsKnown(e.inputs[1]) /\ IsTangent(e.inputs[2]) /\ IsTangent(e.inputs[3])
    [] e.primitive \in {"sin", "cos", "compare"} -> FALSE
    [] OTHER -> IsTangent(e.inputs[1])

IsLinearJaxpr(j) ==
  /\ \A i \in 1..Len(j.eqns) : LinearEqn(j.eqns[i])
  /\ \A n \in 1..Len(j.outs) : IsTangent(j.outs[n])

\* <a, b>: the sum of the elementwise products.
Dot(a, b) == SumSeq([k \in 1..Len(a.data) |-> a.data[k] * b.data[k]])
DotAll(as, bs) == SumSeq([n \in 1..Len(as) |-> Dot(as[n], bs[n])])

\* The unit tangent vectors of the non-const in-binders.
UnitTangents(j) ==
  {[n \in 1..(NumIn(j) - nConsts) |->
      MkArray(j.inBinders[nConsts + n].shape, "float32",
        LAMBDA idx : IF n = m /\ Ravel(j.inBinders[nConsts + n].shape, idx) + 1 = k
                     THEN 1 ELSE 0)] :
     m \in 1..(NumIn(j) - nConsts), k \in 1..4}

KnownValues(args) == [n \in 1..nConsts |-> args[n].val]

-----------------------------------------------------------------------------
(***************************************************************************)
(* Part VI: forward mode, jvpFlat running f under a JVPTrace.  f is the    *)
(* straight-line program of jaxpr: its first nConsts in-binders are arrays *)
(* f closes over, its Lits are the numbers f uses, the other in-binders    *)
(* are f's arguments.                                                      *)
(***************************************************************************)

JvpCfg ==
  [prims |-> {"add", "mul", "neg", "sin", "cos", "reduce_sum", "compare",
              "where", "transpose", "broadcast"},
   sameShape |-> FALSE, explicitPerm |-> FALSE, lits |-> LitVals, litOuts |-> {},
   maxEqns |-> MaxEqns,
   inBinders |->
     {[inBinders |-> <<Aval(<<>>, "float32")>>, nConsts |-> 0],
      [inBinders |-> <<Aval(<<2>>, "float32")>>, nConsts |-> 0],
      [inBinders |-> <<Aval(<<2, 2>>, "float32")>>, nConsts |-> 0],
      [inBinders |-> <<Aval(<<2>>, "float32"), Aval(<<>>, "float32")>>, nConsts |-> 1],
      [inBinders |-> <<Aval(<<>>, "float32"), Aval(<<2>>, "float32")>>, nConsts |-> 1]}]

JVPTracer(primal, tangent) == [primal |-> primal, tangent |-> tangent]

LiftOnes(val) == JVPTracer(val, MkArray(val.shape, val.dtype, LAMBDA idx : 1))

\* JVPTrace.lift(val): new JVPTracer(this, val, zerosLike(val))
Lift(val) == JVPTracer(val, ZerosLike(val))

\* JVPTrace.pure(val): this.lift(pureArray(val))
Pure(v) == Lift(Scalar("float32", v))

\* jvpRules[prim](primals, tangents, params): [primalOut, tangentOut]
JvpRule(prim, x, dx, params) ==
  CASE prim = "add" -> JVPTracer(AddImpl(x[1], x[2]), AddImpl(dx[1], dx[2]))
    [] prim = "mul" ->
         JVPTracer(MulImpl(x[1], x[2]),
                   AddImpl(MulImpl(x[1], dx[2]), MulImpl(dx[1], x[2])))
    [] prim = "neg" -> JVPTracer(NegImpl(x[1]), NegImpl(dx[1]))
    [] prim = "sin" -> JVPTracer(SinImpl(x[1]), MulImpl(CosImpl(x[1]), dx[1]))
    [] prim = "cos" ->
         JVPTracer(CosImpl(x[1]), MulImpl(NegImpl(SinImpl(x[1])), dx[1]))
    [] prim = "reduce_sum" ->
         JVPTracer(ReduceSumImpl(x[1], params.axis),
                   ReduceSumImpl(dx[1], params.axis))
    [] prim = "compare" ->
         LET primal == CompareImpl(x[1], x[2], params.op) IN
           JVPTracer(primal, ZerosLike(primal))
    [] prim = "where" ->
         JVPTracer(WhereImpl(x[1], x[2], x[3]), WhereImpl(x[1], dx[2], dx[3]))
    [] prim = "transpose" ->
         JVPTracer(TransposeImpl(x[1], params.perm),
                   TransposeImpl(dx[1], params.perm))
    [] prim = "broadcast" ->
         JVPTracer(BroadcastImpl(x[1], params.shape, params.axis),
                   BroadcastImpl(dx[1], params.shape, params.axis))

\* fullRaise(trace, val) for a value f holds: a number goes through pure, an
\* array of the enclosing level through lift, a JVPTracer of this trace is
\* returned as it is.
RaiseToJvp(env, a) ==
  IF a.kind = "lit" THEN Pure(a.val)
  ELSE IF a.id <= nConsts THEN Lift(env[a.id])
  ELSE env[a.id]

\* jvpFlat(f, primals, tangents): tracersIn, then f starts.  The caller's
\* tangents are zerosLike(primals), arrays of the primals' avals, or arrays
\* of another shape (jvp compares the tree structures only).  f is followed
\* when the avals agree: what the array operations do with a tangent of
\* another shape is decided outside this code.
JvpStart ==
  /\ phase = "built"
  /\ \E args \in ArgLists(jaxpr.inBinders) :
     LET primals == SubSeq(args, nConsts + 1, NumIn(jaxpr))
         avals == SubSeq(jaxpr.inBinders, nConsts + 1, NumIn(jaxpr))
     IN \E tangents \in
             {[n \in 1..Len(primals) |-> ZerosLike(primals[n])]}
               \cup ArgLists(avals)
               \cup ArgLists([n \in 1..Len(avals) |->
                       IF avals[n].shape = <<>>
                       THEN Aval(<<2>>, avals[n].dtype)
                       ELSE Aval(<<>>, avals[n].dtype)]) :
          pass' = [status |-> IF \A n \in 1..Len(primals) :
                                   tangents[n].shape = primals[n].shape
                              THEN "loop" ELSE "tracersIn",
                   env |-> [n \in 1..NumIn(jaxpr) |->
                              IF n <= nConsts THEN args[n]
                              ELSE JVPTracer(args[n], tangents[n - nConsts])],
                   zeroTangents |-> \A n \in 1..Len(primals) : IsZero(tangents[n]),
                   results |-> <<>>]
  /\ phase' = "jvp"
  /\ UNCHANGED <<jaxpr, nConsts, tvars>>

\* f applies its next primitive: bind raises the inputs to the JVP trace and
\* processPrimitive applies the JVP rule.
JvpEqn ==
  /\ phase = "jvp"
  /\ pass.status = "loop"
  /\ Len(pass.env) < NumVars(jaxpr)
  /\ LET eqn == jaxpr.eqns[Len(pass.env) - NumIn(jaxpr) + 1]
         tracers == [n \in 1..Len(eqn.inputs) |-> RaiseToJvp(pass.env, eqn.inputs[n])]
     IN pass' = [pass EXCEPT !.env = Append(@,
          JvpRule(eqn.primitive,
                  [n \in 1..Len(tracers) |-> tracers[n].primal],
                  [n \in 1..Len(tracers) |-> tracers[n].tangent],
                  eqn.params))]
  /\ UNCHANGED <<jvars, tvars>>

\* f returned: every out is raised to the trace and split into primal and
\* tangent.
JvpReturn ==
  /\ phase = "jvp"
  /\ pass.status = "loop"
  /\ Len(pass.env) = NumVars(jaxpr)
  /\ pass' = [pass EXCEPT
       !.status = "done",
       !.results = [n \in 1..Len(jaxpr.outs) |-> RaiseToJvp(pass.env, jaxpr.outs[n])]]
  /\ UNCHANGED <<jvars, tvars>>

JvpNext ==
  \/ AddEqn(JvpCfg)
  \/ SetOuts(JvpCfg)
  \/ JvpStart
  \/ JvpEqn
  \/ JvpReturn

SpecJvp == BuildInit(JvpCfg) /\ [][JvpNext]_vars

-----------------------------------------------------------------------------
(***************************************************************************)
(* Part VII: kernels.  A ShapeTracker is modelled by what it denotes: the  *)
(* array, of the view's shape, of the physical offsets the view reads.  An *)
(* AluExp is a tree of records; a GlobalView keeps the buffer id, the      *)
(* tracker and the indices it was built with (the shape gidx is unravelled *)
(* over, and whether ridx is appended).                                    *)
(***************************************************************************)

\* ShapeTracker.fromShape.  permute, reshape, broadcast and flip of a tracker
\* are TransposeImpl, ReshapeImpl, BroadcastImpl and FlipImpl on the offsets.
StFromShape(shape) == MkArray(shape, "offset", LAMBDA idx : Ravel(shape, idx))

AluConst(v) == [op |-> "const", val |-> v, src |-> <<>>]
AluOp(op, src) == [op |-> op, src |-> src]

\* AluExp.globalView(dtype, gid, st, indices), with
\* indices = unravelAlu(ishape, gidx) ++ (ridx ? [ridx] : [])
GlobalView(gid, st, ishape, ridx) ==
  [op |-> "globalView", gid |-> gid, st |-> st, ishape |-> ishape,
   ridx |-> ridx, src |-> <<>>]

RECURSIVE Rewrite(_, _)
\* exp.rewrite(fn) with an fn that replaces GlobalView nodes only.
Rewrite(OnView(_), exp) ==
  IF exp.op = "globalView" THEN OnView(exp)
  ELSE IF exp.op = "const" THEN exp
  ELSE [exp EXCEPT !.src = [n \in 1..Len(exp.src) |-> Rewrite(OnView, exp.src[n])]]

\* An expression whose buffer ids are left as they are.
KeepGids(exp, gidMap) == exp

\* exp.reindexGids(gidMap); gidMap[g + 1] is the new id of buffer g.
ReindexGids(exp, gidMap) ==
  Rewrite(LAMBDA v : [v EXCEPT !.gid = gidMap[v.gid + 1]], exp)

\* A read of an element outside the buffer yields whatever the backend
\* yields there.
ReadView(v, bufs, gidx, ridx, oob) ==
  LET idx == Unravel(v.ishape, gidx) \o (IF v.ridx THEN <<ridx>> ELSE <<>>)
      off == At(v.st, idx)
      buf == bufs[v.gid + 1]
  IN IF off < Len(buf) THEN buf[off + 1] ELSE oob

RECURSIVE EvalExp(_, _, _, _, _)
\* The value of exp at (gidx, ridx) over the input buffers.  Idiv is
\* Math.floor(x / y); Mod is the % of JavaScript, whose result has the sign
\* of x and the magnitude |x| mod |y|.
EvalExp(exp, bufs, gidx, ridx, oob) ==
  LET Arg(n) == EvalExp(exp.src[n], bufs, gidx, ridx, oob)
      Abs(v) == IF v < 0 THEN 0 - v ELSE v
      FloorDiv(x, y) ==
        IF (x < 0) = (y < 0) THEN Abs(x) \div Abs(y)
        ELSE IF Abs(x) % Abs(y) = 0 THEN 0 - (Abs(x) \div Abs(y))
        ELSE 0 - (Abs(x) \div Abs(y)) - 1
      Remainder(x, y) ==
        IF x < 0 THEN 0 - (Abs(x) % Abs(y)) ELSE Abs(x) % Abs(y)
  IN
    CASE exp.op = "const" -> exp.val
      [] exp.op = "idiv" -> FloorDiv(Arg(1), Arg(2))
      [] exp.op = "mod" -> Remainder(Arg(1), Arg(2))
      [] exp.op = "globalView" -> ReadView(exp, bufs, gidx, ridx, oob)
      [] exp.op = "add" -> Arg(1) + Arg(2)
      [] exp.op = "sub" -> Arg(1) - Arg(2)
      [] exp.op = "mul" -> Arg(1) * Arg(2)
      [] exp.op = "sin" -> SinI(Arg(1))
      [] exp.op = "cos" -> CosI(Arg(1))
      [] exp.op = "cmplt" -> IF Arg(1) < Arg(2) THEN 1 ELSE 0
      [] exp.op = "where" -> IF Arg(1) # 0 THEN Arg(2) ELSE Arg(3)

\* new Kernel(nargs, size, exp, reduction?); reduction is the size of the
\* Add-reduction, 0 without one.
Kernel(nargs, size, exp, reduction) ==
  [nargs |-> nargs, size |-> size, exp |-> exp, reduction |-> reduction]

\* The buffer a dispatched kernel writes: element gidx for gidx < size, summed
\* over ridx < reduction for a reduction kernel.
RunKernel(k, bufs, oob) ==
  [g \in 1..k.size |->
     IF k.reduction = 0 THEN EvalExp(k.exp, bufs, g - 1, 0, oob)
     ELSE SumSeq([r \in 1..k.reduction |-> EvalExp(k.exp, bufs, g - 1, r - 1, oob)])]

\* aluCompare(a, b, op)
AluCompare(a, b, op) ==
  IF op = "less" THEN AluOp("cmplt", <<a, b>>) ELSE AluOp("cmplt", <<b, a>>)

RECURSIVE BroadcastShapes(_)
\* avals.map((aval) => aval.shape).reduce(generalBroadcast)
BroadcastShapes(shapes) ==
  IF Len(shapes) = 1 THEN shapes[1]
  ELSE GeneralBroadcast(BroadcastShapes(SubSeq(shapes, 1, Len(shapes) - 1)),
                        shapes[Len(shapes)])

\* The expression fn builds from the broadcast input expressions.
ElementwiseExp(prim, e, params) ==
  CASE prim = "add" -> AluOp("add", <<e[1], e[2]>>)
    [] prim = "mul" -> AluOp("mul", <<e[1], e[2]>>)
    [] prim = "neg" -> AluOp("sub", <<AluConst(0), e[1]>>)
    [] prim = "sin" -> AluOp("sin", <<e[1]>>)
    [] prim = "cos" -> AluOp("cos", <<e[1]>>)
    [] prim = "compare" -> AluCompare(e[1], e[2], params.op)
    [] prim = "where" -> AluOp("where", <<e[1], e[2], e[3]>>)

\* st.broadcast(newShape, range(newShape.length - st.shape.length)) on a
\* GlobalView whose tracker has another shape than newShape.
BroadcastView(v, newShape) ==
  IF v.st.shape # newShape
  THEN GlobalView(v.gid,
         BroadcastImpl(v.st, newShape, Range(Len(newShape) - Len(v.st.shape))),
         newShape, FALSE)
  ELSE v

\* broadcastedJit(fn): every GlobalView is broadcast to the common shape,
\* then fn builds the expression.
BroadcastedJit(prim, nargs, exps, avals, params) ==
  LET newShape == BroadcastShapes([n \in 1..Len(avals) |-> avals[n].shape]) IN
    Kernel(nargs, Prod(newShape),
           ElementwiseExp(prim,
             [n \in 1..Len(exps) |->
                Rewrite(LAMBDA v : BroadcastView(v, newShape), exps[n])],
             params),
           0)

\* reshapeJit(fn): fn maps the tracker of every GlobalView; the kernel gets
\* the size of the input aval.
ReshapeJit(prim, nargs, exps, avals, params) ==
  LET NewSt(st) ==
        CASE prim = "transpose" -> TransposeImpl(st, params.perm)
          [] prim = "broadcast" -> BroadcastImpl(st, params.shape, params.axis)
          [] prim = "reshape" -> ReshapeImpl(st, params.shape)
          [] prim = "flip" -> FlipImpl(st, params.axis)
      OnView(v) ==
        LET newSt == NewSt(v.st) IN GlobalView(v.gid, newSt, newSt.shape, FALSE)
  IN Kernel(nargs, Prod(avals[1].shape), Rewrite(OnView, exps[1]), 0)

\* jitRules[ReduceSum]
ReduceSumJit(nargs, exps, avals, params) ==
  LET shape == avals[1].shape
      keptAxes == KeptAxes(Len(shape), params.axis)
      shiftedAxes == SelectSeqIdx(Range(Len(shape)),
                       LAMBDA i : (i - 1) \in SeqToSet(params.axis), 1)
      outShape == [i \in 1..Len(keptAxes) |-> shape[keptAxes[i] + 1]]
      reductionSize == Prod([i \in 1..Len(shiftedAxes) |-> shape[shiftedAxes[i] + 1]])
      newShape == Append(outShape, reductionSize)
      OnView(v) ==
        GlobalView(v.gid,
          ReshapeImpl(TransposeImpl(v.st, keptAxes \o shiftedAxes), newShape),
          outShape, TRUE)
  IN Kernel(nargs, Prod(outShape), Rewrite(OnView, exps[1]), reductionSize)

JitRule(prim, nargs, exps, avals, params) ==
  CASE prim = "reduce_sum" -> ReduceSumJit(nargs, exps, avals, params)
    [] prim \in {"transpose", "broadcast", "reshape", "flip"} ->
         ReshapeJit(prim, nargs, exps, avals, params)
    [] OTHER -> BroadcastedJit(prim, nargs, exps, avals, params)

-----------------------------------------------------------------------------
(***************************************************************************)
(* Part VIII: jitCompile and JitProgram.execute.  The Jaxpr handed to the  *)
(* passes below is the flattened and simplified one.  JitIds are numbers:  *)
(* 0 .. nargs-1 the program inputs, then one per const and per kernel.     *)
(***************************************************************************)

MaxJitEqns == 2

JitCfg ==
  [prims |-> {"add", "mul", "neg", "sin", "cos", "reduce_sum", "compare",
              "where", "transpose", "broadcast", "reshape", "flip"},
   sameShape |-> FALSE, explicitPerm |-> TRUE, lits |-> LitVals, litOuts |-> LitVals,
   maxEqns |-> MaxJitEqns,
   inBinders |->
     {[inBinders |-> <<Aval(<<2>>, "float32")>>, nConsts |-> 0],
      [inBinders |-> <<Aval(<<2, 2>>, "float32")>>, nConsts |-> 0],
      [inBinders |-> <<Aval(<<2>>, "float32"), Aval(<<2>>, "float32")>>, nConsts |-> 1]}]

IsOut(j, v) == \E n \in 1..Len(j.outs) : j.outs[n] = VarAtom(v)

\* The equations after equation i that read its out binder.
Consumers(j, i) ==
  {k \in (i + 1)..Len(j.eqns) :
     \E n \in 1..Len(j.eqns[k].inputs) : j.eqns[k].inputs[n] = VarAtom(OutVar(j, i))}

RECURSIVE NextBlackFrom(_, _, _)
\* The right-to-left pass over the equations; nb[v] = 0 when v has no entry.
NextBlackFrom(j, nb, i) ==
  IF i = 0 THEN nb
  ELSE LET out == OutVar(j, i)
           reach == {nb[OutVar(j, k)] : k \in Consumers(j, i)} \ {0}
       IN NextBlackFrom(j,
            IF j.eqns[i].primitive = "reduce_sum" THEN [nb EXCEPT ![out] = out]
            ELSE IF Cardinality(reach) = 1
                 THEN [nb EXCEPT ![out] = CHOOSE b \in reach : TRUE]
            ELSE IF Cardinality(reach) > 1 THEN [nb EXCEPT ![out] = out]
            ELSE nb,
            i - 1)

\* nextBlack: every Var out is set to itself, then the pass runs.
NextBlack(j) ==
  NextBlackFrom(j, [v \in 1..NumVars(j) |-> IF IsOut(j, v) THEN v ELSE 0],
                Len(j.eqns))

Imm(arg) == [type |-> "imm", arg |-> arg]
FusedExp(exp, args) == [type |-> "exp", exp |-> exp, args |-> args]

RECURSIVE GatherInputs(_, _, _, _)
\* The loop over eqn.inputs: inputExps and inputArgs (acc.exps, acc.args).
GatherInputs(j, ctx, inputs, acc) ==
  IF inputs = <<>> THEN acc
  ELSE LET input == Head(inputs)
           jv == ctx[input.id]
           new == IF jv.type = "exp" THEN jv.args ELSE <<jv.arg>>
           merged == acc.args \o
                     SelectSeq(new, LAMBDA id : id \notin SeqToSet(acc.args))
           st == StFromShape(VarAval(j, input.id).shape)
           exp ==
             IF input.kind = "lit" THEN AluConst(input.val)
             ELSE IF jv.type = "exp"
                  THEN ReindexGids(jv.exp,
                         [g \in 1..Len(jv.args) |-> IndexOf(merged, jv.args[g]) - 1])
             ELSE GlobalView(IndexOf(merged, jv.arg) - 1, st, st.shape, FALSE)
       IN GatherInputs(j, ctx, Tail(inputs),
            [exps |-> Append(acc.exps, exp),
             args |-> IF input.kind = "lit" THEN acc.args ELSE merged])

\* A pushKernel that emits the execute step without the malloc step.
PushExecuteOnly(b, kernel, inputs) ==
  [b EXCEPT
     !.nextId = @ + 1,
     !.steps = Append(@, [type |-> "execute", kernel |-> kernel,
                          inputs |-> inputs, outputs |-> <<b.nextId>>])]

\* JitProgramBuilder.pushKernel: a malloc step and an execute step.
PushKernel(b, kernel, inputs) ==
  [b EXCEPT
     !.nextId = @ + 1,
     !.steps = @ \o <<[type |-> "malloc", size |-> kernel.size, output |-> b.nextId],
                      [type |-> "execute", kernel |-> kernel, inputs |-> inputs,
                       outputs |-> <<b.nextId>>]>>]

AlwaysDispatched(kernel, nb, outVar) == TRUE

\* The dispatch decision for an equation.
IsDispatched(kernel, nb, outVar) == kernel.reduction # 0 \/ nb[outVar] = outVar

\* The kernel the JIT rule builds for an equation, and its input ids.
EqnKernel(j, ctx, eqn) ==
  LET g == GatherInputs(j, ctx, eqn.inputs, [exps |-> <<>>, args |-> <<>>]) IN
    [kernel |-> JitRule(eqn.primitive, Len(g.args), g.exps,
                  [n \in 1..Len(eqn.inputs) |-> AtomAval(j, eqn.inputs[n])],
                  eqn.params),
     args |-> g.args]

\* Dispatch the kernel of equation i, or fuse it into the next expression.
DispatchOrFuse(b, nb, outVar, i, k) ==
  IF IsDispatched(k.kernel, nb, outVar)
  THEN [PushKernel(b, k.kernel, k.args) EXCEPT
          !.ctx = Append(@, Imm(b.nextId)),
          !.dispatched = @ \cup {i}]
  ELSE [b EXCEPT !.ctx = Append(@, FusedExp(k.kernel.exp, k.args))]

RECURSIVE CompileEqns(_, _, _, _)
\* The loop over the equations; b holds the builder, ctx and the equations
\* dispatched so far.
CompileEqns(j, nb, b, i) ==
  IF i > Len(j.eqns) THEN b
  ELSE CompileEqns(j, nb,
         DispatchOrFuse(b, nb, OutVar(j, i), i, EqnKernel(j, b.ctx, j.eqns[i])),
         i + 1)

RECURSIVE CompileOuts(_, _, _)
\* The loop over the outs: b.outputIds grows; a Lit out gets its own kernel.
CompileOuts(j, b, n) ==
  IF n > Len(j.outs) THEN b
  ELSE LET out == j.outs[n] IN
    CompileOuts(j,
      IF out.kind = "var"
      THEN [b EXCEPT !.outputIds = Append(@, b.ctx[out.id].arg)]
      ELSE [PushKernel(b, Kernel(0, 1, AluConst(out.val), 0), <<>>) EXCEPT
              !.outputIds = Append(@, b.nextId)],
      n + 1)

\* The malloc step of id.
MallocStep(steps, id) ==
  CHOOSE k \in 1..Len(steps) : steps[k].type = "malloc" /\ steps[k].output = id

\* findLastIndex over the steps: the last malloc or execute step naming id.
LastUsage(steps, id) ==
  LET used == {k \in 1..Len(steps) :
                 \/ /\ steps[k].type = "execute"
                    /\ id \in SeqToSet(steps[k].outputs) \cup SeqToSet(steps[k].inputs)
                 \/ steps[k].type = "malloc" /\ steps[k].output = id}
  IN CHOOSE k \in used : \A m \in used : m <= k

RECURSIVE InsertFreeSteps(_, _, _)
\* insertFreeSteps(outputIds): ids are the malloc outputs, in step order.
InsertFreeSteps(steps, ids, outputIds) ==
  IF ids = <<>> THEN steps
  ELSE LET id == Head(ids)
           at == LastUsage(steps, id)
       IN InsertFreeSteps(
            IF id \in SeqToSet(outputIds) THEN steps
            ELSE SubSeq(steps, 1, at) \o <<[type |-> "free", input |-> id]>>
                 \o SubSeq(steps, at + 1, Len(steps)),
            Tail(ids), outputIds)

\* The builder after the in-binders are initialized: one const step per
\* const, the program inputs as immediates.
InitialBuilder(j) ==
  LET nargs == NumIn(j) - nConsts IN
    [steps |-> [k \in 1..nConsts |->
                  [type |-> "const", slot |-> k, output |-> nargs + k - 1]],
     nextId |-> nargs + nConsts,
     ctx |-> [k \in 1..NumIn(j) |->
                IF k <= nConsts THEN Imm(nargs + k - 1) ELSE Imm(k - nConsts - 1)],
     dispatched |-> {},
     outputIds |-> <<>>]

\* The outs loop (it throws on an out that is no immediate), the free steps
\* and the JitProgram.
FinishProgram(j, nb, b1, b2) ==
  IF \E n \in 1..Len(j.outs) :
       j.outs[n].kind = "var" /\ b1.ctx[j.outs[n].id].type # "imm"
  THEN [status |-> "threw", nextBlack |-> nb, dispatched |-> b1.dispatched,
        steps |-> b1.steps, inputs |-> Range(NumIn(j) - nConsts), outputs |-> <<>>,
        numIds |-> b1.nextId, results |-> <<>>, args |-> <<>>,
        play |-> <<>>]
  ELSE LET mallocs == SelectSeq(b2.steps, LAMBDA st : st.type = "malloc") IN
       [status |-> "compiled", nextBlack |-> nb, dispatched |-> b2.dispatched,
        steps |-> InsertFreeSteps(b2.steps,
                    [k \in 1..Len(mallocs) |-> mallocs[k].output], b2.outputIds),
        inputs |-> Range(NumIn(j) - nConsts), outputs |-> b2.outputIds,
        numIds |-> b2.nextId, results |-> <<>>, args |-> <<>>,
        play |-> <<>>]

\* jitCompile(backend, jaxpr, consts), past the cache lookup.
JitCompileResult(j) ==
  LET Program(nb, b1) == FinishProgram(j, nb, b1, CompileOuts(j, b1, 1))
      Compile(nb) == Program(nb, CompileEqns(j, nb, InitialBuilder(j), 1))
  IN Compile(NextBlack(j))

NoSlot == [set |-> FALSE, buf |-> <<>>]
Slot(buf) == [set |-> TRUE, buf |-> buf]

RECURSIVE RunSteps(_, _, _, _, _)
\* JitProgram.execute followed by the dispatch of the pending kernels in
\* order; scope[id + 1] is the slot of id.  values are the const and input
\* arrays, in in-binder order.
RunSteps(steps, scope, values, oob, k) ==
  IF k > Len(steps) THEN [ok |-> TRUE, scope |-> scope]
  ELSE LET step == steps[k] IN
    CASE step.type = "const" ->
           RunSteps(steps, [scope EXCEPT ![step.output + 1] = Slot(values[step.slot].data)],
                    values, oob, k + 1)
      [] step.type = "malloc" ->
           RunSteps(steps,
                    [scope EXCEPT ![step.output + 1] = Slot([e \in 1..step.size |-> oob])],
                    values, oob, k + 1)
      [] step.type = "free" ->
           RunSteps(steps, [scope EXCEPT ![step.input + 1] = NoSlot], values, oob, k + 1)
      [] step.type = "execute" ->
           IF \E id \in SeqToSet(step.inputs) \cup SeqToSet(step.outputs) :
                ~scope[id + 1].set
           THEN [ok |-> FALSE, scope |-> scope]
           ELSE RunSteps(steps,
                  [scope EXCEPT ![step.outputs[1] + 1] =
                     Slot(RunKernel(step.kernel,
                            [n \in 1..Len(step.inputs) |-> scope[step.inputs[n] + 1].buf],
                            oob))],
                  values, oob, k + 1)

\* pending.unshift in place of pending.push: the kernels in reverse order.
PendingReversed(pending, p) == <<p>> \o pending

\* pending.push(new PendingExecute(step.kernel, inputs, outputs))
PushPending(pending, p) == Append(pending, p)

RECURSIVE Execute(_, _, _)
\* JitProgram.execute(inputs) as written: the playback of the steps over the
\* backend's slots.  Slots are numbered: the program inputs are slots
\* 1..nargs, the consts the next nConsts slots (a const step's slot k is the
\* k-th of them), and backend.malloc returns the next unused slot with
\* reference count 1.  st.scope[id + 1] is the slot bound to id (0: none),
\* st.refs[s] the reference count of slot s.
Execute(steps, st, k) ==
  IF k > Len(steps) THEN st
  ELSE LET step == steps[k] IN
    CASE step.type = "const" ->
           Execute(steps,
                   [st EXCEPT !.scope[step.output + 1] = st.nargs + step.slot],
                   k + 1)
      [] step.type = "malloc" ->
           Execute(steps,
                   [st EXCEPT !.scope[step.output + 1] = Len(st.refs) + 1,
                              !.refs = Append(st.refs, 1)],
                   k + 1)
      [] step.type = "free" ->
           \* backend.decRef(slot) is commented out: only scope.delete
           Execute(steps, [st EXCEPT !.scope[step.input + 1] = 0], k + 1)
      [] step.type = "execute" ->
           LET inputs == [n \in 1..Len(step.inputs) |-> st.scope[step.inputs[n] + 1]]
               outputs == [n \in 1..Len(step.outputs) |-> st.scope[step.outputs[n] + 1]]
           IN IF 0 \in SeqToSet(inputs) \cup SeqToSet(outputs)
              THEN [st EXCEPT !.threw = TRUE]
              ELSE Execute(steps,
                     [st EXCEPT !.pending =
                        PushPending(st.pending,
                          [step |-> k, inputs |-> inputs, outputs |-> outputs])],
                     k + 1)

\* What an out-of-bounds or uninitialized element may read as.
OobVals == {0, 7}

JitCompile ==
  /\ phase = "built"
  /\ pass' = JitCompileResult(jaxpr)
  /\ phase' = "jit"
  /\ UNCHANGED <<jaxpr, nConsts, tvars>>

\* program.execute(inputs) and the dispatch of its kernels.
JitExecute ==
  /\ phase = "jit"
  /\ pass.status = "compiled"
  /\ \E values \in ArgLists(jaxpr.inBinders), oob \in OobVals :
       LET nargs == NumIn(jaxpr) - nConsts
           run == RunSteps(pass.steps,
                    [id \in 1..pass.numIds |->
                       IF id <= nargs THEN Slot(values[nConsts + id].data) ELSE NoSlot],
                    values, oob, 1)
       IN pass' = [pass EXCEPT
            !.status = IF run.ok THEN "executed" ELSE "executeThrew",
            !.args = values,
            !.play = Execute(pass.steps,
                       [nargs |-> nargs,
                        scope |-> [id \in 1..pass.numIds |->
                                     IF id <= nargs THEN id ELSE 0],
                        refs |-> [k \in 1..NumIn(jaxpr) |-> 1],
                        pending |-> <<>>, threw |-> FALSE], 1),
            !.results = IF run.ok
                        THEN [n \in 1..Len(pass.outputs) |->
                                run.scope[pass.outputs[n] + 1]]
                        ELSE <<>>]
  /\ UNCHANGED <<jvars, tvars>>

JitNext ==
  \/ AddEqn(JitCfg)
  \/ SetOuts(JitCfg)
  \/ JitCompile
  \/ JitExecute

SpecJit == BuildInit(JitCfg) /\ [][JitNext]_vars

\* Fusion: Jaxprs over elementwise primitives and reductions of one input.
MaxFuseEqns == 4

FuseCfg ==
  [prims |-> {"sin", "cos", "mul", "reduce_sum"},
   sameShape |-> FALSE, explicitPerm |-> TRUE, lits |-> {}, litOuts |-> {},
   maxEqns |-> MaxFuseEqns,
   inBinders |-> {[inBinders |-> <<Aval(<<2>>, "float32")>>, nConsts |-> 0]}]

FuseNext ==
  \/ AddEqn(FuseCfg)
  \/ SetOuts(FuseCfg)
  \/ JitCompile

SpecFuse == BuildInit(FuseCfg) /\ [][FuseNext]_vars

-----------------------------------------------------------------------------
(***************************************************************************)
(* Part IX: the compile cache.  One Jaxpr is built and then handed to      *)
(* jitCompile several times, with different backends and const arrays.     *)
(* pass.cache is jitCompileCache, pass.log the history of the calls.       *)
(***************************************************************************)

MaxCalls == 3      \* calls of jitCompile in one behaviour
HashBase == 3      \* FpHash base (3022769 in the source)
HashModulus == 5   \* FpHash modulus (3189051996290219 in the source)
BigIntOffset == 37832657

CacheCfg ==
  [prims |-> {"sin", "add"},
   sameShape |-> FALSE, explicitPerm |-> TRUE, lits |-> {}, litOuts |-> {},
   maxEqns |-> MaxJitEqns,
   inBinders |->
     {[inBinders |-> <<Aval(<<2>>, "float32")>>, nConsts |-> 0],
      [inBinders |-> <<Aval(<<2>>, "float32")>>, nConsts |-> 1]},
   backends |-> {"cpu", "webgpu"},
   \* the arrays that can be passed as consts: Array.id and Array.backend
   arrays |-> {[id |-> 1, backend |-> "cpu"], [id |-> 2, backend |-> "cpu"],
               [id |-> 3, backend |-> "webgpu"]}]

RECURSIVE FpHash(_, _)
\* new FpHash().update(...).value, from the running value v: a polynomial
\* hash, value = (value * base + x) % modulus for each x.
FpHash(v, xs) ==
  IF xs = <<>> THEN v
  ELSE FpHash((v * HashBase + Head(xs)) % HashModulus, Tail(xs))

\* A lookup that finds nothing.
CacheMiss(cache, cacheKey) == 0

\* jitCompileCache.get(cacheKey): the position of the entry, 0 when absent.
CacheGet(cache, cacheKey) ==
  IF \E n \in 1..Len(cache) : cache[n].key = cacheKey
  THEN CHOOSE n \in 1..Len(cache) : cache[n].key = cacheKey
  ELSE 0

\* A cache that is written on every path of a call.
CacheAlwaysSet(cache, outcome, entry) == Append(cache, entry)

\* jitCompileCache after a call: jitCompileCache.set(cacheKey, jp) is the
\* statement before `return jp`, reached only by a call that compiled.
CacheAfter(cache, outcome, entry) ==
  IF outcome = "miss" THEN Append(cache, entry) ELSE cache

\* jitCompile(backend, jaxpr, consts) with its validation, the cache lookup
\* and the cache insert.  The characters of jaxpr.toString() are stood for by
\* the sizes of the Jaxpr (one Jaxpr per behaviour).
JitCall ==
  /\ phase \in {"built", "cache"}
  /\ LET cache == IF phase = "built" THEN << >> ELSE pass.cache
         log == IF phase = "built" THEN << >> ELSE pass.log
         made == IF phase = "built" THEN 0 ELSE pass.made
     IN /\ Len(log) < MaxCalls
        /\ \E backend \in CacheCfg.backends,
              consts \in [1..nConsts -> CacheCfg.arrays]
                         \cup {[n \in 1..(NumIn(jaxpr) + 1) |-> a] : a \in CacheCfg.arrays} :
             LET call == [backend |-> backend, ids |-> [n \in 1..Len(consts) |-> consts[n].id]]
                 cacheKey ==
                   <<backend,
                     FpHash(FpHash(0, <<NumIn(jaxpr), Len(jaxpr.eqns), Len(jaxpr.outs)>>),
                            [n \in 1..Len(consts) |-> consts[n].id + BigIntOffset])>>
                 cached == CacheGet(cache, cacheKey)
                 jp == JitCompileResult(jaxpr)
                 Return(outcome, program, n) ==
                   pass' = [status |-> "cache",
                            cache |-> CacheAfter(cache, outcome,
                                        [key |-> cacheKey, program |-> program,
                                         steps |-> jp.steps]),
                            made |-> n,
                            log |-> Append(log, [call |-> call, outcome |-> outcome,
                                                 program |-> program])]
             IN IF \/ NumIn(jaxpr) < Len(consts)
                   \/ \E n \in 1..Len(consts) : consts[n].backend # backend
                THEN Return("TypeError", 0, made)
                ELSE IF cached # 0
                THEN Return("hit", cache[cached].program, made)
                ELSE IF jp.status = "threw"
                THEN Return("Error", 0, made)
                ELSE Return("miss", made + 1, made + 1)
  /\ phase' = "cache"
  /\ UNCHANGED <<jaxpr, nConsts, tvars>>

CacheNext ==
  \/ AddEqn(CacheCfg)
  \/ SetOuts(CacheCfg)
  \/ JitCall

SpecCache == BuildInit(CacheCfg) /\ [][CacheNext]_vars

-----------------------------------------------------------------------------
(***************************************************************************)
(* Part X: partial evaluation.  The body of a traced function runs under   *)
(* one PartialEvalTrace: it binds primitives on the values it holds and    *)
(* returns; partialEvalGraphToJaxpr then assembles the Jaxpr from the      *)
(* recipes.  A tracer is its index in pass.tracers, a known value (an      *)
(* Array) is a value id, a Var is a positive number and 0 stands for       *)
(* undefined.  Every primitive has one output, so a JaxprEqn recipe is     *)
(* identified by its output tracer.                                        *)
(***************************************************************************)

MaxTracers == 5   \* PartialEvalTracers of one trace
MaxVals == 2      \* known values of one trace

\* A PartialEvalTracer whose recipe is dropped (recipe null).
TracerWithoutRecipe(known, val, recipe, prim, tracersIn) ==
  [known |-> known, val |-> val, recipe |-> "none", prim |-> "none",
   tracersIn |-> <<>>]

\* new PartialEvalTracer(this, pval, recipe)
PartialEvalTracer(known, val, recipe, prim, tracersIn) ==
  [known |-> known, val |-> val, recipe |-> recipe, prim |-> prim,
   tracersIn |-> tracersIn]

\* utils.toposort(terminals, parents), parents a function from node to the
\* list of its parents.  An entry of childCounts is absent, a number, or NaN
\* (undefined - 1).
Toposort(terminals, parents) ==
  LET Num(n) == [k |-> "num", n |-> n]
      Dec(c) == IF c.k = "num" THEN Num(c.n - 1) ELSE [k |-> "nan", n |-> 0]
      Falsy(c) == c.k # "num" \/ c.n = 0
      \* [...new Set(terminals)]
      RECURSIVE Unique(_, _)
      Unique(i, acc) ==
        IF i > Len(terminals) THEN acc
        ELSE Unique(i + 1, IF terminals[i] \in SeqToSet(acc) THEN acc
                           ELSE Append(acc, terminals[i]))
      \* for (const parent of parents(node)) of the first iteration
      RECURSIVE CountParents(_, _, _, _)
      CountParents(ps, i, stack, counts) ==
        IF i > Len(ps) THEN [stack |-> stack, counts |-> counts]
        ELSE IF counts[ps[i]].k # "absent"
        THEN CountParents(ps, i + 1, stack,
               [counts EXCEPT ![ps[i]] = Num(@.n + 1)])
        ELSE CountParents(ps, i + 1, Append(stack, ps[i]),
               [counts EXCEPT ![ps[i]] = Num(1)])
      RECURSIVE CountChildren(_, _)
      CountChildren(stack, counts) ==
        IF stack = <<>> THEN counts
        ELSE LET r == CountParents(parents[stack[Len(stack)]], 1,
                                   SubSeq(stack, 1, Len(stack) - 1), counts)
             IN CountChildren(r.stack, r.counts)
      \* for (const node of terminals) childCounts.set(node, get(node)! - 1)
      RECURSIVE DecTerminals(_, _)
      DecTerminals(i, counts) ==
        IF i > Len(terminals) THEN counts
        ELSE DecTerminals(i + 1,
               [counts EXCEPT ![terminals[i]] = Dec(@)])
      \* for (const parent of parents(node)) of the second iteration
      RECURSIVE ReleaseParents(_, _, _, _)
      ReleaseParents(ps, i, frontier, counts) ==
        IF i > Len(ps) THEN [frontier |-> frontier, counts |-> counts]
        ELSE LET c == Dec(counts[ps[i]]) IN
               ReleaseParents(ps, i + 1,
                 IF c.k = "num" /\ c.n = 0 THEN Append(frontier, ps[i])
                 ELSE frontier,
                 [counts EXCEPT ![ps[i]] = c])
      RECURSIVE Drain(_, _, _)
      Drain(frontier, counts, order) ==
        IF frontier = <<>> THEN order
        ELSE LET node == frontier[Len(frontier)]
                 r == ReleaseParents(parents[node], 1,
                        SubSeq(frontier, 1, Len(frontier) - 1), counts)
             IN Drain(r.frontier, r.counts, Append(order, node))
      childCounts ==
        DecTerminals(1, CountChildren(Unique(1, <<>>),
          [n \in DOMAIN parents |-> [k |-> "absent", n |-> 0]]))
      order == Drain(SelectSeq(terminals, LAMBDA n : Falsy(childCounts[n])),
                     childCounts, <<>>)
  IN [i \in 1..Len(order) |-> order[Len(order) + 1 - i]]

\* partialEvalGraphToJaxpr(tracersIn, tracersOut) up to new Jaxpr(inBinders,
\* eqns, outVars): the Jaxpr assembled and the consts, or the TypeError.
PartialEvalGraphToJaxpr(tracers, tracersIn, tracersOut) ==
  LET order == Toposort(tracersOut,
                 [t \in 1..Len(tracers) |->
                    IF tracers[t].recipe = "JaxprEqn" THEN tracers[t].tracersIn
                    ELSE <<>>])
      RECURSIVE Translate(_, _)
      Translate(n, s) ==
        IF n > Len(order) \/ s.threw THEN s
        ELSE LET t == order[n]
                 recipe == tracers[t].recipe
             IN Translate(n + 1,
                  CASE recipe = "none" -> [s EXCEPT !.threw = TRUE]
                    [] recipe = "LambdaBinding" ->
                         IF t \in SeqToSet(tracersIn) THEN s
                         ELSE [s EXCEPT !.threw = TRUE]
                    [] recipe = "Const" ->
                         IF s.constidToVar[tracers[t].val] # 0
                         THEN [s EXCEPT !.tracerToVar[t] =
                                 s.constidToVar[tracers[t].val]]
                         ELSE [s EXCEPT
                                 !.constidToVar[tracers[t].val] = s.nextVar,
                                 !.constvars = Append(@, s.nextVar),
                                 !.consts = Append(@, tracers[t].val),
                                 !.tracerToVar[t] = s.nextVar,
                                 !.nextVar = @ + 1]
                    [] recipe = "JaxprEqn" ->
                         IF t \in s.processedEqns THEN s
                         ELSE [s EXCEPT
                                 !.processedEqns = @ \cup {t},
                                 !.tracerToVar[t] = s.nextVar,
                                 !.nextVar = @ + 1,
                                 !.eqns = Append(@,
                                   [primitive |-> tracers[t].prim,
                                    inputs |-> [k \in 1..Len(tracers[t].tracersIn) |->
                                      s.tracerToVar[tracers[t].tracersIn[k]]],
                                    outBinder |-> s.nextVar])])
      done == Translate(1,
                [tracerToVar |-> [t \in 1..Len(tracers) |->
                   IF \E k \in 1..Len(tracersIn) : tracersIn[k] = t
                   THEN CHOOSE k \in 1..Len(tracersIn) : tracersIn[k] = t
                   ELSE 0],
                 constidToVar |-> [v \in 1..MaxVals |-> 0],
                 constvars |-> <<>>, consts |-> <<>>,
                 processedEqns |-> {}, eqns |-> <<>>,
                 nextVar |-> Len(tracersIn) + 1, threw |-> FALSE])
  IN [threw |-> done.threw,
      order |-> order,
      consts |-> done.consts,
      jaxpr |-> [inBinders |-> done.constvars \o
                   [k \in 1..Len(tracersIn) |-> done.tracerToVar[tracersIn[k]]],
                 eqns |-> done.eqns,
                 outs |-> [k \in 1..Len(tracersOut) |->
                             done.tracerToVar[tracersOut[k]]]]]

\* partialEvalFlat(f, pvalsIn) up to the call of f: one tracer per pval
\* (trace.newArg), known ones holding the values 1, 2, ...; one more known
\* value is captured by f.
PEInit ==
  /\ traceStack = <<EvalMain>>
  /\ callStack = <<>>
  /\ allMains = {EvalMain}
  /\ nextUid = 1
  /\ lastExit = NoExit
  /\ jaxpr = [inBinders |-> <<>>, eqns |-> <<>>, outs |-> <<>>]
  /\ nConsts = 0
  /\ phase = "partialEval"
  /\ \E n \in 1..2 : \E isKnown \in [1..n -> BOOLEAN] :
       pass = [status |-> "f",
               tracers |-> [i \in 1..n |->
                 PartialEvalTracer(isKnown[i],
                   IF isKnown[i]
                   THEN Cardinality({k \in 1..i : isKnown[k]}) ELSE 0,
                   "LambdaBinding", "none", <<>>)],
               tracersIn |-> [i \in 1..n |-> i],
               nVals |-> Cardinality({k \in 1..n : isKnown[k]}) + 1,
               bound |-> [prim |-> "none", args |-> <<>>, eager |-> FALSE,
                          tracersIn |-> <<>>, out |-> 0],
               tracersOut |-> <<>>,
               result |-> [threw |-> FALSE, order |-> <<>>, consts |-> <<>>,
                           jaxpr |-> [inBinders |-> <<>>, eqns |-> <<>>,
                                      outs |-> <<>>]]]

\* What f holds: the tracers handed to it or returned by bind, and known
\* values (arrays).
PEValues ==
  {[isTracer |-> TRUE, id |-> t] :
     t \in {k \in 1..Len(pass.tracers) : pass.tracers[k].recipe # "Const"}}
    \cup {[isTracer |-> FALSE, id |-> v] : v \in 1..pass.nVals}

\* fullRaise(trace, x) in this trace: a tracer of the trace is returned
\* unchanged, a known value goes through trace.pure.
PERaise(x) ==
  IF x.isTracer THEN pass.tracers[x.id]
  ELSE PartialEvalTracer(TRUE, x.id, "none", "none", <<>>)

\* PartialEvalTrace.processPrimitive(primitive, tracers, params), reached
\* from bind with the arguments raised to the trace.
ProcessPrimitive ==
  /\ phase = "partialEval"
  /\ pass.status = "f"
  /\ \E prim \in {"neg", "mul"} :
     \E args \in [1..(IF prim = "neg" THEN 1 ELSE 2) -> PEValues] :
       LET raised == [i \in 1..Len(args) |-> PERaise(args[i])]
           \* this.instantiateConst(t), one after the other
           newConst(i) == Cardinality({k \in 1..i : raised[k].known})
           tracersIn == [i \in 1..Len(args) |->
                           IF raised[i].known
                           THEN Len(pass.tracers) + newConst(i)
                           ELSE args[i].id]
           consts == SelectSeq(raised, LAMBDA t : t.known)
           out == Len(pass.tracers) + Len(consts) + 1
       IN IF \A i \in 1..Len(args) : raised[i].known
          THEN \* bind(primitive, tracers.map(fullLower), params)
               /\ pass.nVals < MaxVals
               /\ pass' = [pass EXCEPT
                    !.nVals = @ + 1,
                    !.bound = [prim |-> prim, args |-> args, eager |-> TRUE,
                               tracersIn |-> <<>>, out |-> pass.nVals + 1]]
          ELSE /\ out <= MaxTracers
               /\ pass' = [pass EXCEPT
                    !.tracers = (@ \o
                       [i \in 1..Len(consts) |->
                          PartialEvalTracer(FALSE, consts[i].val, "Const",
                                            "none", <<>>)])
                       \o <<PartialEvalTracer(FALSE, 0, "JaxprEqn", prim,
                                              tracersIn)>>,
                    !.bound = [prim |-> prim, args |-> args, eager |-> FALSE,
                               tracersIn |-> tracersIn, out |-> out]]
  /\ UNCHANGED <<jaxpr, nConsts, phase, tvars>>

\* f returns outs: partialEvalFlat raises them, keeps the unknown tracers of
\* the inputs and of the outputs, and assembles the Jaxpr.
PartialEvalReturn ==
  /\ phase = "partialEval"
  /\ pass.status = "f"
  /\ \E n \in 1..MaxOuts : \E outs \in [1..n -> PEValues] :
       LET raised == [i \in 1..n |-> PERaise(outs[i])]
           unknownTracersIn ==
             SelectSeq(pass.tracersIn, LAMBDA t : ~pass.tracers[t].known)
           unknownOuts == SelectSeq(outs, LAMBDA x : ~PERaise(x).known)
           unknownTracersOut == [i \in 1..Len(unknownOuts) |-> unknownOuts[i].id]
           result == PartialEvalGraphToJaxpr(pass.tracers, unknownTracersIn,
                                             unknownTracersOut)
       IN pass' = [pass EXCEPT
            !.status = IF result.threw THEN "threw" ELSE "assembled",
            !.tracersIn = unknownTracersIn,
            !.tracersOut = unknownTracersOut,
            !.result = result]
  /\ UNCHANGED <<jaxpr, nConsts, phase, tvars>>

PENext ==
  \/ ProcessPrimitive
  \/ PartialEvalReturn

SpecPE == PEInit /\ [][PENext]_vars

-----------------------------------------------------------------------------
(***************************************************************************)
(* Part XI: the scalar functions, called on their own with arguments from  *)
(* small ranges.  pass records the last call.                              *)
(***************************************************************************)

MaxOperand == 5   \* |x| and |y| of an evaluated Idiv / Mod

\* exp.evaluate({}) for the expressions Idiv(x, y), Mod(x, y) and
\* Idiv(x, y) * y + Mod(x, y) over constants, y # 0.
AluEvaluate ==
  /\ phase = "util"
  /\ \E x \in (0 - MaxOperand)..MaxOperand,
        y \in ((0 - MaxOperand)..MaxOperand) \ {0} :
       LET idiv == AluOp("idiv", <<AluConst(x), AluConst(y)>>)
           mod == AluOp("mod", <<AluConst(x), AluConst(y)>>)
       IN pass' = [fn |-> "evaluate", x |-> x, y |-> y,
                   idiv |-> EvalExp(idiv, <<>>, 0, 0, 0),
                   mod |-> EvalExp(mod, <<>>, 0, 0, 0),
                   sum |-> EvalExp(
                     AluOp("add", <<AluOp("mul", <<idiv, AluConst(y)>>), mod>>),
                     <<>>, 0, 0, 0)]
  /\ UNCHANGED <<jvars, tvars>>

MaxPow2Arg == 9   \* hint and max of a findPow2 call

RECURSIVE FindPow2(_, _, _)
\* The loop of findPow2(hint, max): while (ret < hint && 2 * ret <= max)
\* ret *= 2.
FindPow2(hint, max, ret) ==
  IF ret < hint /\ 2 * ret <= max THEN FindPow2(hint, max, 2 * ret) ELSE ret

\* findPow2(hint, max): throws when max < 1, else the loop from ret = 1.
FindPow2Call ==
  /\ phase = "util"
  /\ \E hint \in 0..MaxPow2Arg, max \in 0..MaxPow2Arg :
       pass' = [fn |-> "findPow2", hint |-> hint, max |-> max,
                threw |-> max < 1,
                ret |-> IF max < 1 THEN 0 ELSE FindPow2(hint, max, 1)]
  /\ UNCHANGED <<jvars, tvars>>

MaxRefs == 3     \* references to the key array held when split is called
MaxSplits == 2   \* largest num passed to split

\* random.split(key, num).  The key is one Array over one slot; rc is the
\* reference count of the array, held the number of returned keys the caller
\* has not disposed yet.  A num that is no integer is stood for by its
\* integer part and int = FALSE.
RandomSplit ==
  /\ phase = "util"
  /\ \E rc \in 1..MaxRefs,
        num \in {[int |-> TRUE, val |-> v] : v \in (0 - 1)..MaxSplits}
                 \cup {[int |-> FALSE, val |-> 1]} :
       IF num.val < 0 \/ ~num.int
       THEN pass' = [fn |-> "split", rc0 |-> rc, num |-> num, threw |-> TRUE,
                     rc |-> rc, held |-> 0, slotError |-> FALSE]
       ELSE \* ret.push(key) num times, then key.dispose()
            pass' = [fn |-> "split", rc0 |-> rc, num |-> num, threw |-> FALSE,
                     rc |-> rc - 1, held |-> num.val, slotError |-> FALSE]
  /\ UNCHANGED <<jvars, tvars>>

\* The caller disposes one of the keys split returned: Array.dispose
\* decrements the reference count, and the slot is freed when it reaches 0;
\* on an array whose slot is freed already it is an error.
DisposeKey ==
  /\ phase = "util"
  /\ pass.fn = "split"
  /\ pass.held > 0
  /\ ~pass.slotError
  /\ pass' = IF pass.rc = 0
             THEN [pass EXCEPT !.held = @ - 1, !.slotError = TRUE]
             ELSE [pass EXCEPT !.held = @ - 1, !.rc = @ - 1]
  /\ UNCHANGED <<jvars, tvars>>

UtilNext ==
  \/ AluEvaluate
  \/ FindPow2Call
  \/ RandomSplit
  \/ DisposeKey

SpecUtil ==
  /\ traceStack = <<EvalMain>> /\ callStack = <<>> /\ allMains = {EvalMain}
  /\ nextUid = 1 /\ lastExit = NoExit
  /\ jaxpr = [inBinders |-> <<>>, eqns |-> <<>>, outs |-> <<>>]
  /\ nConsts = 0 /\ phase = "util" /\ pass = [fn |-> "none"]
  /\ [][UtilNext]_vars

-----------------------------------------------------------------------------
\* C1: the frame partialEvalFlat pushes is popped on every exit path, so the
\* trace stack after partialEvalFlat (return or throw) is the stack before it
\* and, with no transformation active, only the bottom eval frame is left.
C1_PartialEvalPopsFrame ==
  /\ lastExit.fn = "partialEvalFlat" => lastExit.after = lastExit.before
  /\ callStack = <<>> => traceStack = <<EvalMain>>

\* C2: jvpFlat and jvpV1 pop exactly the frame they pushed: whether f returns
\* or throws and whether fullRaise succeeds or throws, the trace stack after
\* jvp is the stack before jvp, nested calls included.
C2_JvpRestoresStack ==
  lastExit.fn \in {"jvpFlat", "jvpV1"} => lastExit.after = lastExit.before


\* C3: evalJaxprTransposed writes, for each equation, the cotangent of every
\* input position below eqn.inputs.length that holds a Var which is not a
\* known primal (and for which the rule returned a cotangent), so that every
\* use of a variable contributes to its accumulated cotangent.
C3_WritesEveryInputPosition ==
  (phase = "transpose" /\ pass.status \in {"loop", "done"}
     /\ pass.i < Len(jaxpr.eqns)) =>
    LET eqn == jaxpr.eqns[pass.i + 1] IN
      pass.written = {n \in 1..Len(eqn.inputs) :
                       /\ eqn.inputs[n].kind = "var"
                       /\ eqn.inputs[n].id > nConsts
                       /\ ~pass.cotangentsIn[n].null}

\* C4: for a linear Jaxpr, cotangents y and every tangent u, the pullback
\* satisfies <vjp(y), u> = <y, jvp(u)>.
C4_VjpJvpDuality ==
  (phase = "transpose" /\ pass.status = "done" /\ IsLinearJaxpr(jaxpr)) =>
    \A u \in UnitTangents(jaxpr) :
      DotAll(pass.results, u) =
        DotAll(pass.cotangents,
               EvalJaxpr(jaxpr, KnownValues(pass.args) \o u))

C6_JitPreservesSemantics ==
  (phase = "jit" /\ pass.status \in {"executed", "executeThrew"}) =>
    /\ pass.status = "executed"
    /\ \A n \in 1..Len(jaxpr.outs) :
         /\ pass.results[n].set
         /\ pass.results[n].buf = EvalJaxpr(jaxpr, pass.args)[n].data

\* C7: a Jaxpr of elementwise equations followed by one reduction that is
\* its sole out compiles to exactly one malloc and one execute step: the
\* reduction kernel, reading the program input only.
C7_FusedIntoOneReduction ==
  (/\ phase = "jit"
   /\ Len(jaxpr.eqns) >= 1
   /\ jaxpr.eqns[Len(jaxpr.eqns)].primitive = "reduce_sum"
   /\ jaxpr.outs = <<VarAtom(NumVars(jaxpr))>>
   /\ \A i \in 1..(Len(jaxpr.eqns) - 1) : jaxpr.eqns[i].primitive # "reduce_sum") =>
    /\ pass.status = "compiled"
    /\ Len(pass.steps) = 2
    /\ pass.steps[1].type = "malloc"
    /\ pass.steps[2].type = "execute"
    /\ pass.steps[2].inputs = <<0>>
    /\ pass.steps[2].kernel.reduction # 0
    /\ pass.steps[2].outputs = pass.outputs

\* The Jaxpr of x -> sum(sin(x) * cos(x), axis=0) was compiled.
C7_Witness ==
  /\ phase = "jit"
  /\ pass.status = "compiled"
  /\ Len(jaxpr.eqns) = 4
  /\ jaxpr.eqns[1].primitive = "sin" /\ jaxpr.eqns[1].inputs = <<VarAtom(1)>>
  /\ jaxpr.eqns[2].primitive = "cos" /\ jaxpr.eqns[2].inputs = <<VarAtom(1)>>
  /\ jaxpr.eqns[3].primitive = "mul"
  /\ jaxpr.eqns[3].inputs = <<VarAtom(2), VarAtom(3)>>
  /\ jaxpr.eqns[4].primitive = "reduce_sum"
  /\ jaxpr.eqns[4].inputs = <<VarAtom(4)>>
  /\ jaxpr.eqns[4].params.axis = <<0>>
  /\ jaxpr.outs = <<VarAtom(5)>>

\* C8: after the dataflow pass every out of the Jaxpr that an equation
\* defines is black (nextBlack maps it to itself), also when later equations
\* read it, and jitCompile does not throw "Expected imm".
C8_OutsAreBlack ==
  phase = "jit" =>
    /\ \A v \in (NumIn(jaxpr) + 1)..NumVars(jaxpr) :
         IsOut(jaxpr, v) => pass.nextBlack[v] = v
    /\ pass.status # "threw"

\* C9: an equation that is no reduction and defines no out is dispatched as
\* its own kernel iff at least two distinct black outputs are reachable from
\* its out through chains of non-black equations (black: an out, a
\* reduction, or an equation reaching two black outputs).
C9_DispatchedIffTwoBlackReachable ==
  phase = "jit" =>
    LET n == Len(jaxpr.eqns)
        reach[i \in 1..n] ==
          UNION {IF \/ IsOut(jaxpr, OutVar(jaxpr, k))
                    \/ jaxpr.eqns[k].primitive = "reduce_sum"
                    \/ Cardinality(reach[k]) >= 2
                 THEN {k} ELSE reach[k] : k \in Consumers(jaxpr, i)}
    IN \A i \in 1..n :
         (jaxpr.eqns[i].primitive # "reduce_sum" /\ ~IsOut(jaxpr, OutVar(jaxpr, i))) =>
           (i \in pass.dispatched <=> Cardinality(reach[i]) >= 2)

\* C10: in a built program every malloc'ed id that is no program output has
\* exactly one free step, placed after the last execute step naming the id;
\* program outputs, program inputs and const ids have no free step.
C10_FreeAfterLastUse ==
  (phase = "jit" /\ pass.status # "threw") =>
    LET steps == pass.steps
        Of(type) == {k \in 1..Len(steps) : steps[k].type = type}
        FreesOf(id) == {k \in Of("free") : steps[k].input = id}
        Names(k, id) ==
          id \in SeqToSet(steps[k].inputs) \cup SeqToSet(steps[k].outputs)
    IN /\ \A m \in Of("malloc") :
            LET id == steps[m].output IN
              IF id \in SeqToSet(pass.outputs) THEN FreesOf(id) = {}
              ELSE /\ Cardinality(FreesOf(id)) = 1
                   /\ \A f \in FreesOf(id) :
                        /\ m < f
                        /\ \A e \in Of("execute") : Names(e, id) => e < f
       /\ \A c \in Of("const") : FreesOf(steps[c].output) = {}
       /\ \A id \in SeqToSet(pass.inputs) : FreesOf(id) = {}

\* A built program frees an intermediate buffer that a later kernel read,
\* and binds a const.
C10_Witness ==
  /\ phase = "jit"
  /\ pass.status = "compiled"
  /\ \E f, e \in 1..Len(pass.steps) :
       /\ pass.steps[f].type = "free"
       /\ pass.steps[e].type = "execute"
       /\ pass.steps[f].input \in SeqToSet(pass.steps[e].inputs)
  /\ \E c \in 1..Len(pass.steps) : pass.steps[c].type = "const"

\* C11: after JitProgram.execute every slot backend.malloc returned for an
\* intermediate id has been released (reference count 0): the only slots of
\* the run still allocated are those returned in outputs.
C11_IntermediateSlotsReleased ==
  (phase = "jit" /\ pass.status = "executed") =>
    LET play == pass.play
        returned == {play.scope[pass.outputs[n] + 1] : n \in 1..Len(pass.outputs)}
    IN \A s \in (NumIn(jaxpr) + 1)..Len(play.refs) :
         s \notin returned => play.refs[s] = 0

\* C13: execute returns one PendingExecute per execute step, in the order
\* of the steps, each with the slots bound to the step's input and output
\* ids; and every id a kernel reads that the program malloc'ed is written by
\* an earlier execute step.
C13_PendingInEmitOrder ==
  (phase = "jit" /\ pass.status = "executed") =>
    LET steps == pass.steps
        pending == pass.play.pending
        nargs == NumIn(jaxpr) - nConsts
        Of(type) == {k \in 1..Len(steps) : steps[k].type = type}
        SlotOf(id) ==
          IF id < nargs THEN id + 1
          ELSE IF \E c \in Of("const") : steps[c].output = id
          THEN nargs + steps[CHOOSE c \in Of("const") : steps[c].output = id].slot
          ELSE LET m == CHOOSE k \in Of("malloc") : steps[k].output = id
               IN NumIn(jaxpr) + Cardinality({k \in Of("malloc") : k <= m})
    IN /\ Len(pending) = Cardinality(Of("execute"))
       /\ \A n \in 1..Len(pending) :
            /\ pending[n].step \in Of("execute")
            /\ \A m \in 1..(n - 1) : pending[m].step < pending[n].step
            /\ pending[n].inputs =
                 [i \in 1..Len(steps[pending[n].step].inputs) |->
                    SlotOf(steps[pending[n].step].inputs[i])]
            /\ pending[n].outputs =
                 [i \in 1..Len(steps[pending[n].step].outputs) |->
                    SlotOf(steps[pending[n].step].outputs[i])]
       /\ \A e \in Of("execute"), m \in Of("malloc") :
            steps[m].output \in SeqToSet(steps[e].inputs) =>
              \E w \in Of("execute") :
                w < e /\ steps[m].output \in SeqToSet(steps[w].outputs)
       /\ \A e, w \in Of("execute") :
            SeqToSet(steps[w].outputs) \cap SeqToSet(steps[e].inputs) # {} => w < e

\* An executed program with two kernels, the second reading the buffer the
\* first wrote.
C13_Witness ==
  /\ phase = "jit"
  /\ pass.status = "executed"
  /\ Len(pass.play.pending) = 2
  /\ pass.play.pending[1].outputs[1] \in SeqToSet(pass.play.pending[2].inputs)

\* C12: once a jitCompile call has succeeded, every later call with the
\* same backend type, the same Jaxpr and consts with the same ids returns the
\* same JitProgram object from the cache and builds nothing; and an entry of
\* the cache stays, with the program it was inserted with.
C12_CacheHitReturnsSameProgram ==
  phase = "cache" =>
    /\ \A m, n \in 1..Len(pass.log) :
         (m < n /\ pass.log[m].call = pass.log[n].call /\ pass.log[m].program # 0) =>
           /\ pass.log[n].outcome = "hit"
           /\ pass.log[n].program = pass.log[m].program
    /\ pass.made = Cardinality({n \in 1..Len(pass.log) : pass.log[n].outcome = "miss"})
    /\ \A n \in 1..Len(pass.log) :
         pass.log[n].outcome = "miss" =>
           \E c \in 1..Len(pass.cache) : pass.cache[c].program = pass.log[n].program
    /\ \A c, e \in 1..Len(pass.cache) :
         pass.cache[c].key = pass.cache[e].key => c = e

\* A call compiled a program, another call with other consts compiled a
\* second one, and a third call repeated the first and hit the cache.
C12_Witness ==
  /\ phase = "cache"
  /\ Len(pass.log) = 3
  /\ pass.log[1].outcome = "miss"
  /\ pass.log[2].outcome = "miss"
  /\ pass.log[3].outcome = "hit"
  /\ pass.log[3].call = pass.log[1].call

C15_TreeMismatchNoEffect ==
  lastExit.fn \in {"jvp", "fLin", "fVjp"} =>
    LET SameStructure(a, b) ==
          /\ a.leaf = b.leaf
          /\ Len(a.children) = Len(b.children)
          /\ \A i \in 1..Len(a.children) :
               /\ a.children[i].leaf = b.children[i].leaf
               /\ Len(a.children[i].children) = Len(b.children[i].children)
               /\ \A k \in 1..Len(a.children[i].children) :
                    a.children[i].children[k].leaf = b.children[i].children[k].leaf
    IN /\ lastExit.how = "TreeMismatchError" <=>
            ~SameStructure(lastExit.trees[1], lastExit.trees[2])
       /\ lastExit.after = lastExit.before

\* jvp threw TreeMismatchError inside the function another jvp traces.
C15_Witness ==
  /\ lastExit.fn = "jvp"
  /\ lastExit.how = "TreeMismatchError"
  /\ Len(callStack) = 1
  /\ callStack[1].fn = "jvpFlat"

\* C16: the backward pass throws a TypeError at an equation exactly when the
\* equation is nonlinear in a would-be-linear position: Mul unless exactly
\* one argument is an undefined primal; Neg, ReduceSum, Transpose and
\* Broadcast when the argument is a known primal; Where when cond is an
\* undefined primal; Add when neither argument is undefined; Sin, Cos and
\* Compare (no transpose rule) always.  Every equation processed before
\* (those after it in the Jaxpr) did not meet its condition.
C16_NonlinearIsTypeError ==
  (phase = "transpose" /\ pass.status \in {"loop", "done", "threw"}) =>
    LET Undef(a) == a.kind = "var" /\ a.id > nConsts
        Nonlinear(e) ==
          CASE e.primitive = "mul" -> Undef(e.inputs[1]) = Undef(e.inputs[2])
            [] e.primitive \in {"neg", "reduce_sum", "transpose", "broadcast"} ->
                 ~Undef(e.inputs[1])
            [] e.primitive = "where" -> Undef(e.inputs[1])
            [] e.primitive = "add" ->
                 ~Undef(e.inputs[1]) /\ ~Undef(e.inputs[2])
            [] e.primitive \in {"sin", "cos", "compare"} -> TRUE
    IN /\ \A k \in (pass.i + 1)..Len(jaxpr.eqns) : ~Nonlinear(jaxpr.eqns[k])
       /\ pass.status = "threw" =>
            /\ pass.i >= 1
            /\ Nonlinear(jaxpr.eqns[pass.i])
            /\ pass.error \in {"TypeError", "NonlinearError"}
            /\ pass.error = "TypeError" <=>
                 jaxpr.eqns[pass.i].primitive \in {"sin", "cos", "compare"}

\* The second equation was pulled back and the first one, a Mul of two
\* undefined primals, threw.
C16_Witness ==
  /\ phase = "transpose"
  /\ pass.status = "threw"
  /\ Len(jaxpr.eqns) = 2
  /\ pass.i = 1
  /\ jaxpr.eqns[1].primitive = "mul"
  /\ jaxpr.eqns[1].inputs[1].kind = "var" /\ jaxpr.eqns[1].inputs[1].id > nConsts
  /\ jaxpr.eqns[1].inputs[2].kind = "var" /\ jaxpr.eqns[1].inputs[2].id > nConsts

\* C17: fullRaise(trace, value) yields trace.pure(value) for a non-tracer,
\* the value itself for a tracer of trace.main, trace.lift(value) for a
\* tracer of a lower level, and raises an error for a tracer of a higher
\* level or of another frame at the same level; a result is always a tracer
\* of trace.main.
C17_FullRaiseOutcomes ==
  lastExit.fn \in TraceFns \cup {"bind"} =>
    \A i \in 1..Len(lastExit.raised) :
      LET r == lastExit.raised[i]
          main == lastExit.main
      IN /\ ~r.val.isTracer => r.how = "pure"
         /\ (r.val.isTracer /\ r.val.main = main) =>
              r.how = "same" /\ r.tracer = r.val
         /\ (r.val.isTracer /\ r.val.main # main
               /\ r.val.main.level < main.level) => r.how = "lift"
         /\ (r.val.isTracer /\ r.val.main.level > main.level) =>
              r.how = "throwHigher"
         /\ (r.val.isTracer /\ r.val.main # main
               /\ r.val.main.level = main.level) => r.how = "throwDifferent"
         /\ r.how \in {"pure", "same", "lift"} =>
              r.tracer.isTracer /\ r.tracer.main = main
         /\ (\E k \in 1..Len(lastExit.raised) :
               lastExit.raised[k].how \in {"throwHigher", "throwDifferent"})
              <=> lastExit.how = "throwRaise"

\* A traced function returned a tracer of a frame that was popped before, at
\* the level of its own frame, next to a tracer of a higher level.
C17_Witness ==
  /\ lastExit.fn \in TraceFns
  /\ Len(lastExit.raised) = 2
  /\ lastExit.raised[1].how = "throwDifferent"
  /\ lastExit.raised[2].how = "throwHigher"

\* C18: findTopTrace(args) returns a trace whose main has the maximum level
\* among the bottom eval frame, the mains of the tracers in args and the
\* dynamic trace when one is set; without tracers and dynamic trace it is
\* the bottom eval trace; processPrimitive only receives tracers of that
\* main.
C18_TopTraceIsMaxLevel ==
  lastExit.fn = "bind" =>
    LET mains == {EvalMain}
                   \cup {lastExit.raised[i].val.main :
                           i \in {k \in 1..Len(lastExit.raised) :
                                    lastExit.raised[k].val.isTracer}}
                   \cup (IF lastExit.dynamicTrace.set
                         THEN {lastExit.dynamicTrace.main} ELSE {})
    IN /\ lastExit.main \in mains
       /\ \A m \in mains : m.level <= lastExit.main.level
       /\ mains = {EvalMain} => lastExit.main = EvalMain
       /\ lastExit.how = "processPrimitive" =>
            \A i \in 1..Len(lastExit.raised) :
              /\ lastExit.raised[i].tracer.isTracer
              /\ lastExit.raised[i].tracer.main = lastExit.main

\* bind of a non-tracer and a tracer of level 1 while the dynamic trace is a
\* frame of level 2: both arguments reach processPrimitive as tracers of the
\* dynamic trace.
C18_Witness ==
  /\ lastExit.fn = "bind"
  /\ lastExit.how = "processPrimitive"
  /\ lastExit.dynamicTrace.set
  /\ lastExit.main.level = 2
  /\ Len(lastExit.raised) = 2
  /\ lastExit.raised[1].how = "pure"
  /\ lastExit.raised[2].how = "lift"
  /\ lastExit.raised[2].val.main.level = 1

\* C19: every Jaxpr partialEvalGraphToJaxpr assembles is in SSA form: each
\* input of eqns[i] and each out is an in-binder or the out-binder of an
\* equation before it (for an out: of any equation), and none is undefined,
\* also when an output tracer is an ancestor of another output tracer or is
\* returned more than once.
C19_AssembledJaxprIsSSA ==
  (phase = "partialEval" /\ pass.status = "assembled") =>
    LET j == pass.result.jaxpr
        Bound(i) == SeqToSet(j.inBinders)
                      \cup {j.eqns[k].outBinder : k \in 1..(i - 1)}
    IN /\ \A i \in 1..Len(j.eqns) :
            \A n \in 1..Len(j.eqns[i].inputs) :
              /\ j.eqns[i].inputs[n] # 0
              /\ j.eqns[i].inputs[n] \in Bound(i)
       /\ \A n \in 1..Len(j.outs) :
            /\ j.outs[n] # 0
            /\ j.outs[n] \in Bound(Len(j.eqns) + 1)

\* C20: every JVPTracer of a jvp has a primal and a tangent of the same
\* shape and dtype: the input tracers jvpFlat builds from the caller's
\* primals and tangents, the tracers pure and lift create, and the output
\* tracer of every JVP rule.
C20_PrimalTangentSameAval ==
  phase = "jvp" =>
    LET SameAval(t) == /\ t.primal.shape = t.tangent.shape
                       /\ t.primal.dtype = t.tangent.dtype
    IN /\ \A n \in (nConsts + 1)..Len(pass.env) : SameAval(pass.env[n])
       /\ \A n \in 1..Len(pass.results) : SameAval(pass.results[n])

\* C21: for all integers x and y # 0 of either sign, evaluate(Idiv(x, y)) is
\* floor(x / y) and evaluate(Mod(x, y)) is x - evaluate(Idiv(x, y)) * y, so
\* Idiv(x, y) * y + Mod(x, y) = x and Mod(x, y) has the sign of y.
C21_IdivModFloor ==
  (phase = "util" /\ pass.fn = "evaluate") =>
    /\ \/ (pass.idiv * pass.y <= pass.x /\ pass.x < (pass.idiv + 1) * pass.y)
       \/ (pass.idiv * pass.y >= pass.x /\ pass.x > (pass.idiv + 1) * pass.y)
    /\ pass.mod = pass.x - pass.idiv * pass.y
    /\ pass.sum = pass.x
    /\ pass.y > 0 => (pass.mod >= 0 /\ pass.mod < pass.y)
    /\ pass.y < 0 => (pass.mod <= 0 /\ pass.mod > pass.y)

\* C22: the kernel a JIT rule returns for an equation has as its size the
\* number of elements of the equation's output aval, so the malloc step of
\* every dispatched equation allocates as many elements as the output has.
C22_KernelSizeIsOutputSize ==
  (phase = "jit" /\ pass.status # "threw") =>
    LET mallocs == SelectSeq(pass.steps, LAMBDA st : st.type = "malloc")
        Nth(k) == CHOOSE i \in pass.dispatched :
                    Cardinality({d \in pass.dispatched : d < i}) = k - 1
    IN \A k \in 1..Cardinality(pass.dispatched) :
         mallocs[k].size = Prod(VarAval(jaxpr, OutVar(jaxpr, Nth(k))).shape)

\* C23: findPow2(hint, max) throws for max < 1; for max >= 1 it returns the
\* largest power of 2 that is <= max, but with a nonzero hint nothing
\* greater than the first power of 2 that is >= hint; with hint = 0 it is
\* the largest power of 2 <= max.
C23_FindPow2 ==
  (phase = "util" /\ pass.fn = "findPow2") =>
    LET pows == {2 ^ k : k \in 0..5}
        largest == CHOOSE p \in pows : p <= pass.max /\ 2 * p > pass.max
        first == CHOOSE p \in pows :
                   p >= pass.hint /\ (p = 1 \/ p \div 2 < pass.hint)
    IN /\ pass.threw <=> pass.max < 1
       /\ ~pass.threw =>
            pass.ret = IF pass.hint # 0 /\ first < largest THEN first
                       ELSE largest

\* C24: toposort(terminals, parents) returns a list that holds every node
\* reachable from the terminals exactly once and in which every node comes
\* after all of its parents, also when a terminal is repeated or is an
\* ancestor of another terminal.
C24_ToposortOrder ==
  (phase = "partialEval" /\ pass.status \in {"assembled", "threw"}) =>
    LET order == pass.result.order
        Parents(t) == IF pass.tracers[t].recipe = "JaxprEqn"
                      THEN SeqToSet(pass.tracers[t].tracersIn) ELSE {}
        RECURSIVE Closure(_, _)
        Closure(nodes, n) ==
          IF n = 0 THEN nodes
          ELSE Closure(nodes \cup UNION {Parents(t) : t \in nodes}, n - 1)
        reachable == Closure(SeqToSet(pass.tracersOut), Len(pass.tracers))
    IN /\ SeqToSet(order) = reachable
       /\ \A i \in 1..Len(order), k \in 1..Len(order) :
            order[i] = order[k] => i = k
       /\ \A i \in 1..Len(order) :
            \A p \in Parents(order[i]) :
              \E k \in 1..(i - 1) : order[k] = p

C26_HoistedConsts ==
  (phase = "partialEval" /\ pass.status = "assembled") =>
    LET r == pass.result
        nc == Len(r.consts)
        Parents(t) == IF pass.tracers[t].recipe = "JaxprEqn"
                      THEN SeqToSet(pass.tracers[t].tracersIn) ELSE {}
        RECURSIVE Closure(_, _)
        Closure(nodes, n) ==
          IF n = 0 THEN nodes
          ELSE Closure(nodes \cup UNION {Parents(t) : t \in nodes}, n - 1)
        reachable == Closure(SeqToSet(pass.tracersOut), Len(pass.tracers))
    IN /\ Len(r.jaxpr.inBinders) = nc + Len(pass.tracersIn)
       /\ \A k \in 1..Len(pass.tracersIn) : r.jaxpr.inBinders[nc + k] = k
       /\ \A i \in 1..Len(r.jaxpr.inBinders), k \in 1..Len(r.jaxpr.inBinders) :
            r.jaxpr.inBinders[i] = r.jaxpr.inBinders[k] => i = k
       /\ \A i \in 1..nc, k \in 1..nc : r.consts[i] = r.consts[k] => i = k
       /\ SeqToSet(r.consts) =
            {pass.tracers[t].val :
               t \in {u \in reachable : pass.tracers[u].recipe = "Const"}}

\* C27: in every execute step that jitCompile emits the inputs hold no JitId
\* twice, the kernel's nargs is the number of inputs and every buffer id read
\* by the kernel expression is below it; and for every equation, each read of
\* an input expression after the renumbering refers, through the gathered
\* input ids, to the JitId it referred to before (through the args of the
\* fused expression, or the id of the immediate).
C27_ExecuteInputsAndGids ==
  (phase = "jit") =>
    LET RECURSIVE Views(_)
        \* the buffer ids read by exp, left to right
        Views(exp) ==
          IF exp.op = "globalView" THEN <<exp.gid>>
          ELSE IF exp.op = "const" THEN <<>>
          ELSE (Views(exp.src[1]))
               \o (IF Len(exp.src) >= 2 THEN Views(exp.src[2]) ELSE <<>>)
               \o (IF Len(exp.src) >= 3 THEN Views(exp.src[3]) ELSE <<>>)
        CtxBefore(i) ==
          CompileEqns([jaxpr EXCEPT !.eqns = SubSeq(@, 1, i - 1)],
                      pass.nextBlack, InitialBuilder(jaxpr), 1).ctx
    IN /\ \A k \in 1..Len(pass.steps) :
            pass.steps[k].type = "execute" =>
              LET s == pass.steps[k] IN
                /\ \A a \in 1..Len(s.inputs), b \in 1..Len(s.inputs) :
                     s.inputs[a] = s.inputs[b] => a = b
                /\ s.kernel.nargs = Len(s.inputs)
                /\ \A g \in SeqToSet(Views(s.kernel.exp)) :
                     g \in 0..(Len(s.inputs) - 1)
       /\ \A i \in 1..Len(jaxpr.eqns) :
            LET ctx == CtxBefore(i)
                eqn == jaxpr.eqns[i]
                g == GatherInputs(jaxpr, ctx, eqn.inputs,
                                  [exps |-> <<>>, args |-> <<>>])
            IN \A n \in 1..Len(eqn.inputs) :
                 eqn.inputs[n].kind = "var" =>
                   LET jv == ctx[eqn.inputs[n].id]
                       old == IF jv.type = "exp" THEN Views(jv.exp) ELSE <<0>>
                       oldArgs == IF jv.type = "exp" THEN jv.args ELSE <<jv.arg>>
                       new == Views(g.exps[n])
                   IN /\ Len(new) = Len(old)
                      /\ \A v \in 1..Len(new) :
                           /\ new[v] \in 0..(Len(g.args) - 1)
                           /\ g.args[new[v] + 1] = oldArgs[old[v] + 1]

\* A dispatched equation with two fused inputs whose args are the same
\* JitIds in different orders.
C27_Witness ==
  /\ phase = "jit"
  /\ pass.status = "compiled"
  /\ \E i \in pass.dispatched :
       LET ctx == CompileEqns([jaxpr EXCEPT !.eqns = SubSeq(@, 1, i - 1)],
                              pass.nextBlack, InitialBuilder(jaxpr), 1).ctx
           eqn == jaxpr.eqns[i]
       IN /\ Len(eqn.inputs) = 2
          /\ \A n \in 1..2 : eqn.inputs[n].kind = "var"
          /\ LET a == ctx[eqn.inputs[1].id]
                 b == ctx[eqn.inputs[2].id]
             IN /\ a.type = "exp" /\ b.type = "exp"
                /\ Len(a.args) = 2
                /\ b.args = <<a.args[2], a.args[1]>>

\* C28: executing a program that jitCompile returned, with one slot per
\* program input, never throws "internal: JitProgram scope undefined" and
\* returns a slot for every output: the ids of the const and malloc steps are
\* fresh, every id of an execute step is a program input or was bound by an
\* earlier const or malloc step and not removed by an earlier free step, and
\* every output id is bound when the steps end.
C28_ExecuteNeverSeesUndefined ==
  (phase = "jit" /\ pass.status # "threw") =>
    LET steps == pass.steps
        nargs == NumIn(jaxpr) - nConsts
        Binds(k, id) == steps[k].type \in {"const", "malloc"} /\ steps[k].output = id
        Frees(k, id) == steps[k].type = "free" /\ steps[k].input = id
        BoundAt(k, id) ==
          /\ id < nargs \/ \E m \in 1..(k - 1) : Binds(m, id)
          /\ \A m \in 1..(k - 1) : ~Frees(m, id)
    IN /\ \A k \in 1..Len(steps), m \in 1..Len(steps) :
            (steps[k].type \in {"const", "malloc"} /\ Binds(m, steps[k].output))
              => (k = m /\ steps[k].output >= nargs)
       /\ \A k \in 1..Len(steps) :
            steps[k].type = "execute" =>
              \A id \in SeqToSet(steps[k].inputs) \cup SeqToSet(steps[k].outputs) :
                BoundAt(k, id)
       /\ \A n \in 1..Len(pass.outputs) : BoundAt(Len(steps) + 1, pass.outputs[n])
       /\ pass.status \in {"executed", "executeThrew"} =>
            /\ pass.status = "executed"
            /\ ~pass.play.threw
            /\ \A n \in 1..Len(pass.outputs) :
                 pass.play.scope[pass.outputs[n] + 1] # 0

\* A program with a const step, a freed intermediate and two outputs has
\* been executed.
C28_Witness ==
  /\ phase = "jit"
  /\ pass.status = "executed"
  /\ \E k \in 1..Len(pass.steps) : pass.steps[k].type = "free"
  /\ \E k \in 1..Len(pass.steps) : pass.steps[k].type = "const"
  /\ Len(pass.outputs) = 2

C30_SplitKeysAreLive ==
  (phase = "util" /\ pass.fn = "split") =>
    /\ pass.threw <=> (pass.num.val < 0 \/ ~pass.num.int)
    /\ pass.threw => pass.rc = pass.rc0
    /\ ~pass.slotError
    /\ (~pass.threw /\ pass.held = pass.num.val) => pass.rc = pass.rc0 - 1
    /\ (~pass.threw /\ pass.held >= 1) => pass.rc >= 1

=============================================================================
